---- MODULE Spec2Model ----
(***************************************************************************)
(* Group scheduling of the education CRM backend: GroupsService.create,    *)
(* update, remove and checkScheduleConflicts over the persisted groups,    *)
(* with the dependency validation against the resource catalog; the        *)
(* enrollment of students (StudentsService.enrollStudent, unenrollStudent, *)
(* StudentGroupService.create and update), the rooms (RoomsService.create, *)
(* update, remove and checkAvailability) and the roles of the users        *)
(* (UsersService.update, updateRole and remove).                           *)
(***************************************************************************)
EXTENDS Integers, Sequences, FiniteSets, TLC

\* ---------------------------------------------------------------- bounds
\* Group ids handed out by the SERIAL primary key during one behaviour.
MaxGroups == 2
\* Offset of the server's local zone from UTC, in hours.
TzOffset == 5
\* Group calls that may be in flight together in the concurrent specification.
MaxCalls == 2
\* Ids handed out by the SERIAL primary key of student_group.
MaxEnrollments == 3
\* Ids handed out by the SERIAL primary key of rooms, the seeded room
\* included.
MaxRooms == 3

\* ------------------------------------------------------ program constants
\* start_time is a wall-clock "HH:mm:ss"; the model keeps the hour.
HoursPerDay == 24

\* --------------------------------------------------------- value encoding
\* A field that is absent from a request body (JavaScript undefined).
UNDEF == -2
\* A null column / a null field of a request body.
NULL == -1
\* An absent days field.
NoDays == <<"UNDEF">>
\* An absent name field.
NoName == "UNDEF"
\* An absent status field.
NoStatus == "UNDEF"

\* JavaScript truthiness of an optional id (0, null and undefined are falsy).
Truthy(x) == x > 0
\* JavaScript truthiness of an optional "HH:mm:ss" string.
TruthyTime(t) == t >= 0
\* JavaScript truthiness of an optional ISO 8601 date string.
TruthyDate(d) == d >= 0
\* JavaScript truthiness of an optional array ([] is truthy).
TruthyDays(d) == d # NoDays

\* ----------------------------------------------------------- input domains
TeacherIds == {1}
RoomIds == {1}
CourseIds == {1, 2}
BranchIds == {1}
Names == {"A"}
\* status of the bodies of the scheduling specifications: the DTO default.
Statuses == {"PLANNED"}
DaySeqs == {<<"MON", "WED">>, <<"WED", "FRI">>, <<"TUE", "THU">>}
\* Days offered to the dry run (which persists nothing).
CheckDaySeqs == {<<"WED", "FRI">>, <<"THU", "WED", "MON">>, << >>, NoDays}
\* Wall-clock hours of the bodies that may be persisted: "00:00:00".
Times == {0}
\* Wall-clock hours offered to the dry run: "00:00:00" and "09:00:00".
CheckTimes == {0, 9}

VARIABLES
  groups,        \* the groups table: id -> row
  nextId,        \* next value of the groups id sequence
  studentGroups, \* the student_group table: set of rows
                 \* [id, groupId, studentId, branchId]
  teachers,      \* the teachers table: id -> [status, branchId]
  courses,       \* the courses table: id -> [status, branchId]
  branches,      \* the branches table: id -> [status]
  rooms,         \* the rooms table: id -> [branchId, name]
  resp,          \* the call that has just been answered, with its answer
  calls,         \* group calls in flight (concurrent specification)
  staleWrites,   \* TRUE once a write was made on a read that another write
                 \* had followed
  students,      \* the students table: id -> [branchId]
  enrolls,       \* enroll calls in flight (concurrent specification)
  lastCheck,     \* the last answer of a dry run, until the answer of a
                 \* write that followed it is delivered
  nextEnrollment,\* next value of the student_group id sequence
  users,         \* the users table: id -> [role]
  nextRoomId     \* next value of the rooms id sequence

vars == <<groups, nextId, studentGroups, teachers, courses, branches, rooms,
          resp, calls, staleWrites, students, enrolls, lastCheck,
          nextEnrollment, users, nextRoomId>>

catalog == <<teachers, courses, branches, rooms>>

\* ------------------------------------------------------------ conversions
Mod(a, n) == ((a % n) + n) % n

\* new Date(`1970-01-01T${t}`): a local wall-clock time becomes an instant;
\* the TIME column keeps its UTC time of day.
ParseTime(t) == Mod(t - TzOffset, HoursPerDay)

\* time.toTimeString().slice(0, 8): the instant read back in local time.
formatTime(d) == Mod(d + TzOffset, HoursPerDay)

\* start_time of a response: formatted, or null.
FormatStart(d) == IF d = NULL THEN NULL ELSE formatTime(d)

\* new Date(s) of an ISO 8601 string is an instant (the model counts it in
\* hours of UTC); the DATE column keeps its UTC day.
ParseDate(s) == s \div HoursPerDay

\* date.toISOString().slice(0, 10): the day, read back as its UTC midnight.
formatDate(d) == d * HoursPerDay

\* start_date / end_date of a response: formatted, or null.
FormatDay(d) == IF d = NULL THEN NULL ELSE formatDate(d)

\* Elements of a sequence.
Range(s) == {s[i] : i \in 1..Len(s)}

\* Prisma `days: { hasSome: list }`.
HasSome(rowDays, list) == Range(rowDays) \cap Range(list) # {}

\* All orders in which a query without orderBy may return the rows S.
Orders(S) ==
  {f \in [1..Cardinality(S) -> S] :
     \A i, j \in 1..Cardinality(S) : i # j => f[i] # f[j]}

\* ------------------------------------------------------------ the catalog
InitTeachers == [t \in TeacherIds |-> [status |-> "ACTIVE", branchId |-> 1]]
InitCourses ==
  [c \in CourseIds |->
     [status |-> IF c = 1 THEN "ACTIVE" ELSE "DRAFT", branchId |-> 1]]
\* The branches table holds two branches that the scheduling bodies do not
\* name: branch 2, and branch 3 which is INACTIVE.
CatalogBranchIds == {1, 2, 3}
InitBranches ==
  [b \in CatalogBranchIds |-> [status |-> IF b = 3 THEN "INACTIVE" ELSE "ACTIVE"]]
InitRooms == [r \in RoomIds |-> [branchId |-> 1, name |-> "R1"]]
\* Students "s1" and "s2" of branch 1 and "s3" of branch 2.
StudentIds == {"s1", "s2", "s3"}
InitStudents == [st \in StudentIds |-> [branchId |-> IF st = "s3" THEN 2 ELSE 1]]

\* Users 1 and 2 are ADMIN, user 3 is MANAGER.
UserIds == {1, 2, 3}
InitUsers == [u \in UserIds |-> [role |-> IF u = 3 THEN "MANAGER" ELSE "ADMIN"]]

\* validateGroupDependencies: TRUE when no validation promise rejects.
validateGroupDependencies(data) ==
  /\ Truthy(data.courseId) =>
       /\ data.courseId \in DOMAIN courses
       /\ courses[data.courseId].status = "ACTIVE"
       /\ Truthy(data.branchId) =>
            courses[data.courseId].branchId = data.branchId
  /\ Truthy(data.branchId) =>
       /\ data.branchId \in DOMAIN branches
       /\ branches[data.branchId].status = "ACTIVE"
  /\ Truthy(data.teacherId) =>
       /\ data.teacherId \in DOMAIN teachers
       /\ teachers[data.teacherId].status = "ACTIVE"
       /\ Truthy(data.branchId) =>
            teachers[data.teacherId].branchId = data.branchId
  /\ Truthy(data.roomId) =>
       /\ data.roomId \in DOMAIN rooms
       /\ Truthy(data.branchId) => rooms[data.roomId].branchId = data.branchId

\* ------------------------------------------------- schedule conflict check
\* conflictTime of a row whose start_time is null ('Unknown').
UnknownTime == NULL - 2

\* ConflictRecord reporting the days of the conflicting group.
ConflictRecord_RowDays(type, id, row, candDays) ==
  [conflictType |-> type,
   conflictingGroupId |-> id,
   conflictingGroupName |-> row.name,
   conflictDays |-> row.days,
   conflictTime |-> IF row.start_time # NULL THEN formatTime(row.start_time)
                    ELSE UnknownTime]

\* One GroupScheduleConflictDto built in the loop over the query result.
ConflictRecord(type, id, row, candDays) ==
  [conflictType |-> type,
   conflictingGroupId |-> id,
   conflictingGroupName |-> row.name,
   conflictDays |-> SelectSeq(candDays, LAMBDA d : d \in Range(row.days)),
   conflictTime |-> IF row.start_time # NULL THEN formatTime(row.start_time)
                    ELSE UnknownTime]

\* PushRecords leaving the loop after the first record.
PushRecords_FirstOnly(type, order, store, groupData) ==
  LET all == SelectSeq([i \in 1..Len(order) |->
                          ConflictRecord(type, order[i], store[order[i]],
                                         groupData.days)],
                       LAMBDA r : Len(r.conflictDays) > 0)
  IN IF Len(all) > 1 THEN <<all[1]>> ELSE all

\* The loop over a query result: rows are visited in the returned order and a
\* record is pushed when conflictDays is not empty.
PushRecords(type, order, store, groupData) ==
  SelectSeq([i \in 1..Len(order) |->
               ConflictRecord(type, order[i], store[order[i]], groupData.days)],
            LAMBDA r : Len(r.conflictDays) > 0)

\* ScheduleWhere without the excluded id.
ScheduleWhere_NoExclude(row, id, groupData, excludeGroupId) ==
  /\ HasSome(row.days, groupData.days)
  /\ TruthyTime(groupData.start_time) =>
       row.start_time = ParseTime(groupData.start_time)

\* The fields shared by both where clauses: days, start_time and the excluded
\* id.  A filter whose value is undefined is ignored by the query.
ScheduleWhere(row, id, groupData, excludeGroupId) ==
  /\ HasSome(row.days, groupData.days)
  /\ TruthyTime(groupData.start_time) =>
       row.start_time = ParseTime(groupData.start_time)
  /\ Truthy(excludeGroupId) => id # excludeGroupId

\* TeacherWhere with hasEvery in the place of hasSome.
TeacherWhere_HasEvery(store, groupData, excludeGroupId) ==
  {id \in DOMAIN store :
     /\ groupData.teacherId = UNDEF \/ store[id].teacherId = groupData.teacherId
     /\ Range(groupData.days) \subseteq Range(store[id].days)
     /\ TruthyTime(groupData.start_time) =>
          store[id].start_time = ParseTime(groupData.start_time)
     /\ Truthy(excludeGroupId) => id # excludeGroupId}

\* prisma.group.findMany of the teacher check: the ids of the rows found.
TeacherWhere(store, groupData, excludeGroupId) ==
  {id \in DOMAIN store :
     /\ groupData.teacherId = UNDEF \/ store[id].teacherId = groupData.teacherId
     /\ ScheduleWhere(store[id], id, groupData, excludeGroupId)}

\* RoomWhere with hasEvery in the place of hasSome.
RoomWhere_HasEvery(store, groupData, excludeGroupId) ==
  {id \in DOMAIN store :
     /\ groupData.roomId = UNDEF \/ store[id].roomId = groupData.roomId
     /\ Range(groupData.days) \subseteq Range(store[id].days)
     /\ TruthyTime(groupData.start_time) =>
          store[id].start_time = ParseTime(groupData.start_time)
     /\ Truthy(excludeGroupId) => id # excludeGroupId}

\* prisma.group.findMany of the room check.
RoomWhere(store, groupData, excludeGroupId) ==
  {id \in DOMAIN store :
     /\ groupData.roomId = UNDEF \/ store[id].roomId = groupData.roomId
     /\ ScheduleWhere(store[id], id, groupData, excludeGroupId)}

\* TeacherConflicts comparing teacher and start_time only.
TeacherConflicts_NoDays(store, groupData, excludeGroupId) ==
  IF Truthy(groupData.teacherId)
  THEN {[i \in 1..Len(o) |->
           ConflictRecord("TEACHER_CONFLICT", o[i], store[o[i]], groupData.days)] :
          o \in Orders({id \in DOMAIN store :
                          /\ store[id].teacherId = groupData.teacherId
                          /\ store[id].start_time = ParseTime(groupData.start_time)
                          /\ Truthy(excludeGroupId) => id # excludeGroupId})}
  ELSE {<< >>}

\* TeacherConflicts without the test of groupData.teacherId.
TeacherConflicts_NoGuard(store, groupData, excludeGroupId) ==
  {PushRecords("TEACHER_CONFLICT", o, store, groupData) :
     o \in Orders(TeacherWhere(store, groupData, excludeGroupId))}

\* "Check teacher conflicts": the record sequences the block may push.
TeacherConflicts(store, groupData, excludeGroupId) ==
  IF Truthy(groupData.teacherId)
  THEN {PushRecords("TEACHER_CONFLICT", o, store, groupData) :
          o \in Orders(TeacherWhere(store, groupData, excludeGroupId))}
  ELSE {<< >>}

\* "Check room conflicts".
RoomConflicts(store, groupData, excludeGroupId) ==
  IF Truthy(groupData.roomId)
  THEN {PushRecords("ROOM_CONFLICT", o, store, groupData) :
          o \in Orders(RoomWhere(store, groupData, excludeGroupId))}
  ELSE {<< >>}

\* checkScheduleConflicts without the early return.
checkScheduleConflicts_NoEarlyReturn(store, groupData, excludeGroupId) ==
  {t \o r : t \in TeacherConflicts(store, groupData, excludeGroupId),
            r \in RoomConflicts(store, groupData, excludeGroupId)}

\* checkScheduleConflicts: the conflict lists the call may end with.  A
\* non-empty list is thrown as a ConflictException, an empty one is returned.
checkScheduleConflicts(store, groupData, excludeGroupId) ==
  IF ~TruthyDays(groupData.days) \/ ~TruthyTime(groupData.start_time)
  THEN {<< >>}
  ELSE {t \o r : t \in TeacherConflicts(store, groupData, excludeGroupId),
                 r \in RoomConflicts(store, groupData, excludeGroupId)}

\* ------------------------------------------------------- request bodies
\* CreateGroupDto bodies that pass the DTO validation.
CreateInputs ==
  [name : Names, courseId : CourseIds, branchId : BranchIds,
   teacherId : TeacherIds \cup {UNDEF}, roomId : RoomIds \cup {UNDEF},
   status : Statuses, days : DaySeqs, start_time : Times \cup {UNDEF},
   start_date : {UNDEF}, end_date : {UNDEF}]

\* Number of schedule fields (teacherId, roomId, days, start_time) in a body.
Present(data) ==
  (IF data.teacherId # UNDEF THEN 1 ELSE 0)
  + (IF data.roomId # UNDEF THEN 1 ELSE 0)
  + (IF data.days # NoDays THEN 1 ELSE 0)
  + (IF data.start_time # UNDEF THEN 1 ELSE 0)

\* UpdateGroupDto bodies: every field optional.  The model offers the empty
\* body, the bodies with one field and the bodies with the whole schedule.
UpdateInputs ==
  {data \in [name : {NoName}, courseId : {UNDEF, 2}, branchId : {UNDEF},
             teacherId : TeacherIds \cup {UNDEF, NULL},
             roomId : RoomIds \cup {UNDEF, NULL},
             status : {NoStatus}, days : DaySeqs \cup {NoDays},
             start_time : Times \cup {UNDEF, NULL},
             start_date : {UNDEF}, end_date : {UNDEF}] :
     \/ data.courseId = UNDEF /\ Present(data) \in {0, 1}
     \/ data.courseId # UNDEF /\ Present(data) = 0
     \/ /\ data.courseId = UNDEF /\ Present(data) = 4
        /\ Truthy(data.teacherId) /\ Truthy(data.roomId)
        /\ TruthyTime(data.start_time)}

\* Bodies of the dry run; the service method is also applied to candidates
\* without days.
CheckInputs ==
  [name : Names, courseId : {1}, branchId : BranchIds,
   teacherId : TeacherIds \cup {UNDEF}, roomId : RoomIds \cup {UNDEF},
   status : Statuses, days : CheckDaySeqs, start_time : CheckTimes \cup {UNDEF},
   start_date : {UNDEF}, end_date : {UNDEF}]

NoData ==
  [name |-> NoName, courseId |-> UNDEF, branchId |-> UNDEF, teacherId |-> UNDEF,
   roomId |-> UNDEF, status |-> NoStatus, days |-> NoDays,
   start_time |-> UNDEF, start_date |-> UNDEF, end_date |-> UNDEF]

\* ------------------------------------------------------------- responses
\* A response without a body of interest.
NoBody == [none |-> TRUE]

NoResp ==
  [op |-> "none", id |-> 0, data |-> NoData, code |-> 0, conflicts |-> << >>,
   pre |-> << >>, body |-> NoBody, preRooms |-> << >>, preEnrolled |-> {},
   preUsers |-> << >>]

\* The answer to a call with its response body, and with the groups, rooms,
\* student_group and users tables the call was made on.
AnswerWith(op, id, data, code, conflicts, body) ==
  [op |-> op, id |-> id, data |-> data, code |-> code, conflicts |-> conflicts,
   pre |-> groups, body |-> body, preRooms |-> rooms,
   preEnrolled |-> studentGroups, preUsers |-> users]

\* The answer to a call.
Answer(op, id, data, code, conflicts) ==
  AnswerWith(op, id, data, code, conflicts, NoBody)

\* HTTP status codes of the answers.
Created == 201
Ok == 200
BadRequest == 400
Forbidden == 403
NotFound == 404
Conflict == 409

\* ----------------------------------------------------------- GroupsService
\* The row prisma.group.create writes for a body.
createRow(data) ==
  [name |-> data.name, courseId |-> data.courseId, branchId |-> data.branchId,
   teacherId |-> IF data.teacherId = UNDEF THEN NULL ELSE data.teacherId,
   roomId |-> IF data.roomId = UNDEF THEN NULL ELSE data.roomId,
   status |-> IF data.status = NoStatus THEN "PLANNED" ELSE data.status,
   days |-> data.days,
   start_time |-> IF TruthyTime(data.start_time)
                  THEN ParseTime(data.start_time) ELSE NULL,
   start_date |-> IF TruthyDate(data.start_date)
                  THEN ParseDate(data.start_date) ELSE NULL,
   end_date |-> IF TruthyDate(data.end_date)
                THEN ParseDate(data.end_date) ELSE NULL]

\* create up to the write: the answers the checks may give; code 0 stands for
\* "all checks passed".
createChecks(store, data) ==
  IF ~validateGroupDependencies(data)
  THEN {[code |-> BadRequest, conflicts |-> << >>]}
  ELSE IF Truthy(data.teacherId) \/ Truthy(data.roomId)
  THEN {[code |-> IF c = << >> THEN 0 ELSE Conflict, conflicts |-> c] :
          c \in checkScheduleConflicts(store, data, UNDEF)}
  ELSE {[code |-> 0, conflicts |-> << >>]}

\* findOne / formatGroupDetailResponse: the row as the service sees it.
findOne(store, id) ==
  [name |-> store[id].name, courseId |-> store[id].courseId,
   branchId |-> store[id].branchId, teacherId |-> store[id].teacherId,
   roomId |-> store[id].roomId, status |-> store[id].status,
   days |-> store[id].days,
   start_time |-> FormatStart(store[id].start_time),
   start_date |-> FormatDay(store[id].start_date),
   end_date |-> FormatDay(store[id].end_date)]

\* { ...existingGroup, ...data }
Merge(existing, data) ==
  [name |-> IF data.name = NoName THEN existing.name ELSE data.name,
   courseId |-> IF data.courseId = UNDEF THEN existing.courseId
                ELSE data.courseId,
   branchId |-> IF data.branchId = UNDEF THEN existing.branchId
                ELSE data.branchId,
   teacherId |-> IF data.teacherId = UNDEF THEN existing.teacherId
                 ELSE data.teacherId,
   roomId |-> IF data.roomId = UNDEF THEN existing.roomId ELSE data.roomId,
   status |-> IF data.status = NoStatus THEN existing.status ELSE data.status,
   days |-> IF data.days = NoDays THEN existing.days ELSE data.days,
   start_time |-> IF data.start_time = UNDEF THEN existing.start_time
                  ELSE data.start_time,
   start_date |-> IF data.start_date = UNDEF THEN existing.start_date
                  ELSE data.start_date,
   end_date |-> IF data.end_date = UNDEF THEN existing.end_date
                ELSE data.end_date]

\* The condition under which update validates the dependencies.
UpdateValidates(data) ==
  \/ Truthy(data.courseId) \/ Truthy(data.branchId)
  \/ Truthy(data.teacherId) \/ Truthy(data.roomId)

\* UpdateChecks triggered by a change of teacher or room only.
UpdateChecks_ResourceOnly(data) ==
  data.teacherId # UNDEF \/ data.roomId # UNDEF

\* The condition under which update runs the conflict check.
UpdateChecks(data) ==
  \/ data.teacherId # UNDEF \/ data.roomId # UNDEF
  \/ TruthyDays(data.days) \/ TruthyTime(data.start_time)

\* update up to the write.
updateChecks(store, id, data) ==
  IF id \notin DOMAIN store
  THEN {[code |-> NotFound, conflicts |-> << >>]}
  ELSE LET merged == Merge(findOne(store, id), data) IN
       IF UpdateValidates(data) /\ ~validateGroupDependencies(merged)
       THEN {[code |-> BadRequest, conflicts |-> << >>]}
       ELSE IF UpdateChecks(data)
       THEN {[code |-> IF c = << >> THEN 0 ELSE Conflict, conflicts |-> c] :
               c \in checkScheduleConflicts(store, merged, id)}
       ELSE {[code |-> 0, conflicts |-> << >>]}

\* The row after prisma.group.update with updateData.
updateRow(row, data) ==
  [name |-> IF data.name = NoName THEN row.name ELSE data.name,
   courseId |-> IF data.courseId = UNDEF THEN row.courseId ELSE data.courseId,
   branchId |-> IF data.branchId = UNDEF THEN row.branchId ELSE data.branchId,
   teacherId |-> IF data.teacherId = UNDEF THEN row.teacherId
                 ELSE data.teacherId,
   roomId |-> IF data.roomId = UNDEF THEN row.roomId ELSE data.roomId,
   status |-> IF data.status = NoStatus THEN row.status ELSE data.status,
   days |-> IF data.days = NoDays THEN row.days ELSE data.days,
   start_time |-> IF data.start_time = UNDEF THEN row.start_time
                  ELSE IF TruthyTime(data.start_time)
                  THEN ParseTime(data.start_time) ELSE NULL,
   start_date |-> IF data.start_date = UNDEF THEN row.start_date
                  ELSE IF TruthyDate(data.start_date)
                  THEN ParseDate(data.start_date) ELSE NULL,
   end_date |-> IF data.end_date = UNDEF THEN row.end_date
                ELSE IF TruthyDate(data.end_date)
                THEN ParseDate(data.end_date) ELSE NULL]

Extend(store, id, row) ==
  [i \in DOMAIN store \cup {id} |-> IF i = id THEN row ELSE store[i]]

Without(store, id) == [i \in DOMAIN store \ {id} |-> store[i]]

Quiet == resp.op = "none" /\ \A k \in DOMAIN calls : calls[k].op = "idle"

\* The foreign keys of a groups row; prisma.group.create fails with P2003,
\* answered as BadRequest, when one of them names no row.
ForeignKeys(row) ==
  /\ row.courseId \in DOMAIN courses
  /\ row.branchId \in DOMAIN branches
  /\ row.teacherId # NULL => row.teacherId \in DOMAIN teachers
  /\ row.roomId # NULL => row.roomId \in DOMAIN rooms

\* POST /groups
Create(data) ==
  /\ Quiet
  /\ \E out \in createChecks(groups, data) :
       IF out.code # 0
       THEN /\ resp' = Answer("create", 0, data, out.code, out.conflicts)
            /\ UNCHANGED <<groups, nextId>>
       ELSE /\ nextId <= MaxGroups
            /\ nextId' = nextId + 1
            /\ IF ForeignKeys(createRow(data))
               THEN /\ groups' = Extend(groups, nextId, createRow(data))
                    /\ resp' = Answer("create", nextId, data, Created, << >>)
               ELSE /\ groups' = groups
                    /\ resp' = Answer("create", 0, data, BadRequest, << >>)
  /\ UNCHANGED <<studentGroups, catalog, calls, staleWrites, students,
                 enrolls, lastCheck, nextEnrollment, users, nextRoomId>>

\* The answer of update: the error of the checks, or the outcome of
\* prisma.group.update, which fails with P2003, answered as BadRequest, when
\* a foreign key of the new row names no row.
updateCode(store, id, data, out) ==
  IF out.code # 0 THEN out.code
  ELSE IF ForeignKeys(updateRow(store[id], data)) THEN Ok
  ELSE BadRequest

\* updateWrite writing the row before the checks are made.
updateWrite_BeforeChecks(store, id, data, out) ==
  IF id \in DOMAIN store /\ ForeignKeys(updateRow(store[id], data))
  THEN [store EXCEPT ![id] = updateRow(store[id], data)]
  ELSE store

\* The groups table after update: prisma.group.update is reached when every
\* check has passed, and it is the one write of the call.
updateWrite(store, id, data, out) ==
  IF out.code = 0 /\ ForeignKeys(updateRow(store[id], data))
  THEN [store EXCEPT ![id] = updateRow(store[id], data)]
  ELSE store

\* PATCH /groups/:id
Update(id, data) ==
  /\ Quiet
  /\ \E out \in updateChecks(groups, id, data) :
       /\ resp' = Answer("update", id, data,
                         updateCode(groups, id, data, out), out.conflicts)
       /\ groups' = updateWrite(groups, id, data, out)
  /\ UNCHANGED <<nextId, studentGroups, catalog, calls, staleWrites, students,
                 enrolls, lastCheck, nextEnrollment, users, nextRoomId>>

\* removeChecks without the count of the enrolled students.
removeChecks_NoGuard(store, enrolled, id) ==
  IF id \notin DOMAIN store THEN NotFound ELSE Ok

\* remove up to the delete: findOne, then the count of student_group rows.
removeChecks(store, enrolled, id) ==
  IF id \notin DOMAIN store THEN NotFound
  ELSE IF Cardinality({sg \in enrolled : sg.groupId = id}) > 0 THEN Conflict
  ELSE Ok

\* DELETE /groups/:id
Remove(id) ==
  /\ Quiet
  /\ LET code == removeChecks(groups, studentGroups, id)
     IN /\ resp' = Answer("remove", id, NoData, code, << >>)
        /\ groups' = IF code = Ok THEN Without(groups, id) ELSE groups
  /\ UNCHANGED <<nextId, studentGroups, catalog, calls, staleWrites, students,
                 enrolls, lastCheck, nextEnrollment, users, nextRoomId>>

\* checkConflictsBody answering hasConflicts: false in the catch branch too.
checkConflictsBody_NeverTrue(c) ==
  [hasConflicts |-> FALSE, conflicts |-> c]

\* The body the controller returns: the service returned (the list is empty)
\* or threw the ConflictException that carries the list.
checkConflictsBody(c) ==
  IF c = << >>
  THEN [hasConflicts |-> FALSE, conflicts |-> << >>]
  ELSE [hasConflicts |-> TRUE, conflicts |-> c]

\* POST /groups/check-conflicts
CheckConflicts(data) ==
  /\ Quiet
  /\ \E c \in checkScheduleConflicts(groups, data, UNDEF) :
       resp' = AnswerWith("check", 0, data, Ok, c, checkConflictsBody(c))
  /\ UNCHANGED <<groups, nextId, studentGroups, catalog, calls, staleWrites,
                 students, enrolls, lastCheck, nextEnrollment, users,
                 nextRoomId>>

\* The answer has been delivered.
Respond ==
  /\ resp.op # "none"
  /\ resp' = NoResp
  /\ UNCHANGED <<groups, nextId, studentGroups, catalog, calls, staleWrites,
                 students, enrolls, lastCheck, nextEnrollment, users,
                 nextRoomId>>

\* The teacher row after prisma.teacher.update: a truthy field of the body
\* replaces the stored one.
teacherRow(row, data) ==
  [status |-> IF data.status # NoStatus THEN data.status ELSE row.status,
   branchId |-> IF Truthy(data.branchId) THEN data.branchId ELSE row.branchId]

\* PATCH /teachers/:id with a status or a branchId; an unknown teacher or
\* an unknown branch is answered NotFound and the call changes nothing.
TeacherUpdate(t, data) ==
  /\ Quiet
  /\ t \in DOMAIN teachers
  /\ Truthy(data.branchId) => data.branchId \in DOMAIN branches
  /\ teachers[t] # teacherRow(teachers[t], data)
  /\ teachers' = [teachers EXCEPT ![t] = teacherRow(teachers[t], data)]
  /\ UNCHANGED <<groups, nextId, studentGroups, courses, branches, rooms,
                 resp, calls, staleWrites, students, enrolls, lastCheck,
                 nextEnrollment, users, nextRoomId>>

IdleCall == [op |-> "idle", id |-> 0, data |-> NoData, stale |-> FALSE]

\* An enroll call that is not running.
NoEnroll == [studentId |-> "", groupId |-> 0, branchId |-> 0]
IdleEnroll == [pc |-> "idle", data |-> NoEnroll, code |-> 0, raced |-> FALSE]

Init ==
  /\ groups = << >>
  /\ nextId = 1
  /\ studentGroups = {}
  /\ teachers = InitTeachers
  /\ courses = InitCourses
  /\ branches = InitBranches
  /\ rooms = InitRooms
  /\ resp = NoResp
  /\ calls = [k \in 1..MaxCalls |-> IdleCall]
  /\ staleWrites = FALSE
  /\ students = InitStudents
  /\ enrolls = [k \in 1..MaxCalls |-> IdleEnroll]
  /\ lastCheck = NoResp
  /\ nextEnrollment = 1
  /\ users = InitUsers
  /\ nextRoomId = Cardinality(RoomIds) + 1

Next ==
  \/ \E data \in CreateInputs : Create(data)
  \/ \E id \in 1..MaxGroups, data \in UpdateInputs : Update(id, data)
  \/ \E id \in 1..MaxGroups : Remove(id)
  \/ \E data \in CheckInputs : CheckConflicts(data)
  \/ Respond

Spec == Init /\ [][Next]_vars

\* ------------------------------------------- catalog changes between calls
\* Bodies of the specification with a changing catalog.
CatCreateInputs ==
  {data \in CreateInputs :
     data.courseId = 1 /\ Truthy(data.teacherId) /\ TruthyTime(data.start_time)}

CatUpdateInputs ==
  {data \in UpdateInputs : Present(data) = 4 \/ TruthyDays(data.days)}

\* UpdateTeacherDto bodies that set the status.
CatTeacherInputs == [status : {"ACTIVE", "INACTIVE"}, branchId : {UNDEF}]

NextCat ==
  \/ \E data \in CatCreateInputs : Create(data)
  \/ \E id \in 1..MaxGroups, data \in CatUpdateInputs : Update(id, data)
  \/ \E t \in TeacherIds, data \in CatTeacherInputs : TeacherUpdate(t, data)
  \/ Respond

SpecCat == Init /\ [][NextCat]_vars

\* ------------------------------------------------------- interleaved calls
\* create and update await the conflict check and then the write; another
\* call may run between the two.  The answers of interleaved calls are not
\* recorded in resp.
ConcCreateInputs ==
  {data \in CreateInputs :
     /\ data.courseId = 1 /\ Truthy(data.teacherId) /\ data.roomId = UNDEF
     /\ TruthyTime(data.start_time) /\ data.days # <<"TUE", "THU">>}

ConcUpdateInputs ==
  {data \in UpdateInputs : Present(data) = 1 /\ data.days = <<"TUE", "THU">>}

\* create up to the end of the conflict check.
BeginCreate(k, data) ==
  /\ resp.op = "none"
  /\ calls[k].op = "idle"
  /\ \E out \in createChecks(groups, data) : out.code = 0
  /\ calls' = [calls EXCEPT ![k] = [op |-> "create", id |-> 0, data |-> data,
                                    stale |-> FALSE]]
  /\ UNCHANGED <<groups, nextId, studentGroups, catalog, resp, staleWrites,
                 students, enrolls, lastCheck, nextEnrollment, users,
                 nextRoomId>>

\* update up to the end of the conflict check.
BeginUpdate(k, id, data) ==
  /\ resp.op = "none"
  /\ calls[k].op = "idle"
  /\ \E out \in updateChecks(groups, id, data) : out.code = 0
  /\ calls' = [calls EXCEPT ![k] = [op |-> "update", id |-> id, data |-> data,
                                    stale |-> FALSE]]
  /\ UNCHANGED <<groups, nextId, studentGroups, catalog, resp, staleWrites,
                 students, enrolls, lastCheck, nextEnrollment, users,
                 nextRoomId>>

\* The calls in flight after call k has written: k is over, the reads of the
\* others are older than a write.
AfterWrite(k) ==
  [j \in DOMAIN calls |->
     IF j = k THEN IdleCall
     ELSE IF calls[j].op = "idle" THEN calls[j]
     ELSE [calls[j] EXCEPT !.stale = TRUE]]

\* prisma.group.create of a call in flight.
CommitCreate(k) ==
  /\ calls[k].op = "create"
  /\ nextId <= MaxGroups
  /\ groups' = Extend(groups, nextId, createRow(calls[k].data))
  /\ nextId' = nextId + 1
  /\ staleWrites' = (staleWrites \/ calls[k].stale)
  /\ calls' = AfterWrite(k)
  /\ UNCHANGED <<studentGroups, catalog, resp, students, enrolls, lastCheck,
                 nextEnrollment, users, nextRoomId>>

\* prisma.group.update of a call in flight; P2025 when the row is gone.
CommitUpdate(k) ==
  /\ calls[k].op = "update"
  /\ IF calls[k].id \in DOMAIN groups
     THEN /\ groups' = [groups EXCEPT
                          ![calls[k].id] = updateRow(groups[calls[k].id],
                                                     calls[k].data)]
          /\ staleWrites' = (staleWrites \/ calls[k].stale)
          /\ calls' = AfterWrite(k)
     ELSE /\ calls' = [calls EXCEPT ![k] = IdleCall]
          /\ UNCHANGED <<groups, staleWrites>>
  /\ UNCHANGED <<nextId, studentGroups, catalog, resp, students, enrolls,
                 lastCheck, nextEnrollment, users, nextRoomId>>

NextConc ==
  \/ \E k \in 1..MaxCalls, data \in ConcCreateInputs : BeginCreate(k, data)
  \/ \E k \in 1..MaxCalls, id \in 1..MaxGroups, data \in ConcUpdateInputs :
       BeginUpdate(k, id, data)
  \/ \E k \in 1..MaxCalls : CommitCreate(k)
  \/ \E k \in 1..MaxCalls : CommitUpdate(k)

SpecConc == Init /\ [][NextConc]_vars

\* ------------------------------------------------------ repeated dry runs
\* An answer has been delivered.  The client keeps the answer of a dry run
\* (check-conflicts, check-availability) to compare it with the answer of
\* the next call, and drops it after a call that has written the groups or
\* the rooms table.
Deliver ==
  /\ resp.op # "none"
  /\ resp' = NoResp
  /\ lastCheck' = IF resp.op \in {"check", "availability"} THEN resp
                  ELSE IF groups = resp.pre /\ rooms = resp.preRooms
                  THEN lastCheck
                  ELSE NoResp
  /\ UNCHANGED <<groups, nextId, studentGroups, catalog, calls, staleWrites,
                 students, enrolls, nextEnrollment, users, nextRoomId>>

\* Bodies of the specification of the repeated dry run.
DryCreateInputs ==
  {data \in CreateInputs :
     /\ data.courseId = 1 /\ Truthy(data.teacherId) /\ data.roomId = UNDEF
     /\ TruthyTime(data.start_time)}

DryCheckInputs ==
  {data \in CheckInputs : Truthy(data.teacherId) /\ data.roomId = UNDEF}

NextDry ==
  \/ \E data \in DryCreateInputs : Create(data)
  \/ \E id \in 1..MaxGroups : Remove(id)
  \/ \E data \in DryCheckInputs : CheckConflicts(data)
  \/ Deliver

SpecDry == Init /\ [][NextDry]_vars

\* --------------------------------------------------------- StudentsService
\* Student ids of the bodies: the students and an unknown one.
EnrollStudentIds == StudentIds \cup {"s9"}
\* Branch ids of the bodies.
EnrollBranchIds == {1, 2}

\* EnrollStudentDto bodies.
EnrollInputs ==
  [studentId : EnrollStudentIds, groupId : 1..MaxGroups,
   branchId : EnrollBranchIds]

\* SamePair matching no row.
SamePair_NoMatch(row, groupId, studentId) ==
  row.groupId = groupId /\ row.studentId = studentId /\ row.id < 0

\* The compound key groupId_studentId of findUnique and of the unique index.
SamePair(row, groupId, studentId) ==
  row.groupId = groupId /\ row.studentId = studentId

\* enrollChecks with the branch of the group alone compared.
enrollChecks_GroupBranchOnly(studs, store, enrolled, data) ==
  IF data.studentId \notin DOMAIN studs THEN NotFound
  ELSE IF data.groupId \notin DOMAIN store THEN NotFound
  ELSE IF store[data.groupId].branchId # data.branchId THEN BadRequest
  ELSE IF \E row \in enrolled : SamePair(row, data.groupId, data.studentId)
  THEN Conflict
  ELSE 0

\* enrollStudent up to the insert: the error thrown, or 0 when every check
\* has passed.
enrollChecks(studs, store, enrolled, data) ==
  IF data.studentId \notin DOMAIN studs THEN NotFound
  ELSE IF data.groupId \notin DOMAIN store THEN NotFound
  ELSE IF \/ store[data.groupId].branchId # data.branchId
          \/ studs[data.studentId].branchId # data.branchId
  THEN BadRequest
  ELSE IF \E row \in enrolled : SamePair(row, data.groupId, data.studentId)
  THEN Conflict
  ELSE 0

\* An error that no handler maps: answered as 500.
InternalError == 500

\* insertCode rethrowing the unique violation unmapped.
insertCode_Unmapped(studs, store, enrolled, data) ==
  IF \E row \in enrolled : SamePair(row, data.groupId, data.studentId)
  THEN InternalError
  ELSE IF \/ data.groupId \notin DOMAIN store
          \/ data.studentId \notin DOMAIN studs
          \/ data.branchId \notin DOMAIN branches
  THEN BadRequest
  ELSE Created

\* prisma.studentGroup.create and the catch block: P2002 of the unique index
\* is answered as Conflict, P2003 of a foreign key as BadRequest.
insertCode(studs, store, enrolled, data) ==
  IF \E row \in enrolled : SamePair(row, data.groupId, data.studentId)
  THEN Conflict
  ELSE IF \/ data.groupId \notin DOMAIN store
          \/ data.studentId \notin DOMAIN studs
          \/ data.branchId \notin DOMAIN branches
  THEN BadRequest
  ELSE Created

\* The row the insert writes.
enrollRow(id, data) ==
  [id |-> id, groupId |-> data.groupId, studentId |-> data.studentId,
   branchId |-> data.branchId]

\* POST /students/enroll
Enroll(data) ==
  /\ Quiet
  /\ LET checked == enrollChecks(students, groups, studentGroups, data)
         code == IF checked # 0 THEN checked
                 ELSE insertCode(students, groups, studentGroups, data)
     IN /\ checked = 0 => nextEnrollment <= MaxEnrollments
        /\ resp' = Answer("enroll", data.groupId, data, code, << >>)
        /\ studentGroups' =
             IF code = Created
             THEN studentGroups \cup {enrollRow(nextEnrollment, data)}
             ELSE studentGroups
        /\ nextEnrollment' =
             IF checked = 0 THEN nextEnrollment + 1 ELSE nextEnrollment
  /\ UNCHANGED <<groups, nextId, catalog, calls, staleWrites, students,
                 enrolls, lastCheck, users, nextRoomId>>

\* DELETE /students/:studentId/groups/:groupId
Unenroll(groupId, studentId) ==
  /\ Quiet
  /\ LET found == {row \in studentGroups : SamePair(row, groupId, studentId)}
         data == [studentId |-> studentId, groupId |-> groupId, branchId |-> 0]
     IN /\ resp' = Answer("unenroll", groupId, data,
                          IF found = {} THEN NotFound ELSE Ok, << >>)
        /\ studentGroups' = studentGroups \ found
  /\ UNCHANGED <<groups, nextId, catalog, calls, staleWrites, students,
                 enrolls, lastCheck, nextEnrollment, users, nextRoomId>>

\* Bodies of the groups that students are enrolled in.
EnrollCreateInputs ==
  {data \in CreateInputs :
     /\ data.courseId = 1 /\ data.teacherId = UNDEF /\ data.roomId = UNDEF
     /\ data.start_time = UNDEF /\ data.days = <<"MON", "WED">>}

NextEnroll ==
  \/ \E data \in EnrollCreateInputs : Create(data)
  \/ \E id \in 1..MaxGroups : Remove(id)
  \/ \E data \in EnrollInputs : Enroll(data)
  \/ \E g \in 1..MaxGroups, st \in EnrollStudentIds : Unenroll(g, st)
  \/ Respond

SpecEnroll == Init /\ [][NextEnroll]_vars

\* ------------------------------------------------ interleaved enroll calls
\* enrollStudent awaits the existence check and then the insert; another
\* enroll call may run between the two.
ConcEnrollInputs ==
  {data \in EnrollInputs : data.studentId \in {"s1", "s2"} /\ data.branchId = 1}

\* enrollStudent up to the end of the existence check.
BeginEnroll(k, data) ==
  /\ resp.op = "none"
  /\ enrolls[k].pc = "idle"
  /\ enrollChecks(students, groups, studentGroups, data) = 0
  /\ enrolls' = [enrolls EXCEPT ![k] = [pc |-> "checked", data |-> data,
                                        code |-> 0, raced |-> FALSE]]
  /\ UNCHANGED <<groups, nextId, studentGroups, catalog, resp, calls,
                 staleWrites, students, lastCheck, nextEnrollment, users,
                 nextRoomId>>

\* The other calls that have passed the check for the pair of call k and
\* have not inserted yet.
Racing(k) ==
  {j \in DOMAIN enrolls \ {k} :
     /\ enrolls[j].pc = "checked"
     /\ enrolls[j].data.groupId = enrolls[k].data.groupId
     /\ enrolls[j].data.studentId = enrolls[k].data.studentId}

\* The insert of a call in flight, and its answer.
CommitEnroll(k) ==
  /\ enrolls[k].pc = "checked"
  /\ nextEnrollment <= MaxEnrollments
  /\ LET code == insertCode(students, groups, studentGroups, enrolls[k].data)
     IN /\ studentGroups' =
             IF code = Created
             THEN studentGroups \cup {enrollRow(nextEnrollment, enrolls[k].data)}
             ELSE studentGroups
        /\ enrolls' =
             [j \in DOMAIN enrolls |->
                IF j = k
                THEN [enrolls[k] EXCEPT
                        !.pc = "done", !.code = code,
                        !.raced = (enrolls[k].raced \/ Racing(k) # {})]
                ELSE IF j \in Racing(k)
                THEN [enrolls[j] EXCEPT !.raced = TRUE]
                ELSE enrolls[j]]
  /\ nextEnrollment' = nextEnrollment + 1
  /\ UNCHANGED <<groups, nextId, catalog, resp, calls, staleWrites, students,
                 lastCheck, users, nextRoomId>>

NextEnrollConc ==
  \/ \E data \in EnrollCreateInputs : Create(data)
  \/ Respond
  \/ \E k \in 1..MaxCalls, data \in ConcEnrollInputs : BeginEnroll(k, data)
  \/ \E k \in 1..MaxCalls : CommitEnroll(k)

SpecEnrollConc == Init /\ [][NextEnrollConc]_vars

\* ------------------------------------------ remove interleaved with enroll
\* remove awaits findOne and the count of the enrollments and then the
\* delete; an enroll call may run between the two.
\* remove up to the end of the count.
BeginRemove(k, id) ==
  /\ resp.op = "none"
  /\ calls[k].op = "idle"
  /\ removeChecks(groups, studentGroups, id) = Ok
  /\ calls' = [calls EXCEPT ![k] = [op |-> "remove", id |-> id,
                                    data |-> NoData, stale |-> FALSE]]
  /\ UNCHANGED <<groups, nextId, studentGroups, catalog, resp, staleWrites,
                 students, enrolls, lastCheck, nextEnrollment, users,
                 nextRoomId>>

\* student_group_groupId_fkey ... ON DELETE CASCADE
GroupCascade(enrolled, id) == {row \in enrolled : row.groupId # id}

\* prisma.group.delete of a call in flight, and its answer: the rows of
\* student_group that reference the group go with it; P2025, answered as
\* NotFound, when the group is gone.  The call is stale when the group had
\* an enrollment at the delete, the count it had read being 0.
CommitRemove(k) ==
  /\ calls[k].op = "remove"
  /\ IF calls[k].id \in DOMAIN groups
     THEN /\ groups' = Without(groups, calls[k].id)
          /\ studentGroups' = GroupCascade(studentGroups, calls[k].id)
          /\ calls' = [calls EXCEPT
                         ![k].op = "removed",
                         ![k].stale =
                           (GroupCascade(studentGroups, calls[k].id)
                              # studentGroups)]
          /\ staleWrites' =
               (staleWrites
                  \/ GroupCascade(studentGroups, calls[k].id) # studentGroups)
     ELSE /\ calls' = [calls EXCEPT ![k].op = "removeFailed"]
          /\ UNCHANGED <<groups, studentGroups, staleWrites>>
  /\ UNCHANGED <<nextId, catalog, resp, students, enrolls, lastCheck,
                 nextEnrollment, users, nextRoomId>>

NextRemoveRace ==
  \/ \E data \in EnrollCreateInputs : Create(data)
  \/ Respond
  \/ \E k \in 1..MaxCalls, id \in 1..MaxGroups : BeginRemove(k, id)
  \/ \E k \in 1..MaxCalls : CommitRemove(k)
  \/ \E k \in 1..MaxCalls, data \in ConcEnrollInputs : BeginEnroll(k, data)
  \/ \E k \in 1..MaxCalls : CommitEnroll(k)

SpecRemoveRace == Init /\ [][NextRemoveRace]_vars

\* ----------------------------------------------------- StudentGroupService
\* Ids that StudentGroupDto bodies give to a row: above the ids that the
\* sequence of the table hands out.
GivenIds == {MaxEnrollments + 8}

\* StudentGroupDto bodies.
StudentGroupInputs ==
  [id : GivenIds, groupId : 1..MaxGroups, studentId : {"s1", "s3"},
   branchId : EnrollBranchIds]

\* UpdateStudentGroupDto bodies: every field is optional.
UpdateStudentGroupInputs ==
  [id : {UNDEF}, groupId : {UNDEF} \cup 1..MaxGroups,
   studentId : {NoName, "s1"}, branchId : {UNDEF} \cup EnrollBranchIds]

\* The constraints of the student_group table on a row written next to the
\* rows others: the primary key, the unique index on (groupId, studentId)
\* and the three foreign keys.
StudentGroupConstraints(studs, store, others, row) ==
  /\ \A r \in others :
        r.id # row.id /\ ~SamePair(r, row.groupId, row.studentId)
  /\ row.groupId \in DOMAIN store
  /\ row.studentId \in DOMAIN studs
  /\ row.branchId \in DOMAIN branches

\* POST /student-group: prisma.studentGroup.create({ data }); an error of
\* the table is not caught.
StudentGroupCreate(data) ==
  /\ Quiet
  /\ LET ok == StudentGroupConstraints(students, groups, studentGroups, data)
     IN /\ resp' = Answer("studentGroupCreate", data.groupId, data,
                          IF ok THEN Created ELSE InternalError, << >>)
        /\ studentGroups' =
             IF ok THEN studentGroups \cup {data} ELSE studentGroups
  /\ UNCHANGED <<groups, nextId, catalog, calls, staleWrites, students,
                 enrolls, lastCheck, nextEnrollment, users, nextRoomId>>

\* The row that prisma.studentGroup.update writes: the fields of the body
\* that are defined replace those of the row.
studentGroupRow(row, data) ==
  [id |-> IF data.id # UNDEF THEN data.id ELSE row.id,
   groupId |-> IF data.groupId # UNDEF THEN data.groupId ELSE row.groupId,
   studentId |->
     IF data.studentId # NoName THEN data.studentId ELSE row.studentId,
   branchId |->
     IF data.branchId # UNDEF THEN data.branchId ELSE row.branchId]

\* PUT /student-group/:id: prisma.studentGroup.update({ where: { id }, data });
\* P2025 of a missing row and the errors of the table are not caught.
StudentGroupUpdate(id, data) ==
  /\ Quiet
  /\ LET found == {row \in studentGroups : row.id = id}
         ok == /\ found # {}
               /\ \A row \in found :
                    StudentGroupConstraints(students, groups,
                                            studentGroups \ found,
                                            studentGroupRow(row, data))
     IN /\ resp' = Answer("studentGroupUpdate", id, data,
                          IF ok THEN Ok ELSE InternalError, << >>)
        /\ studentGroups' =
             IF ok
             THEN (studentGroups \ found)
                    \cup {studentGroupRow(row, data) : row \in found}
             ELSE studentGroups
  /\ UNCHANGED <<groups, nextId, catalog, calls, staleWrites, students,
                 enrolls, lastCheck, nextEnrollment, users, nextRoomId>>

\* UpdateGroupDto bodies that set the branch alone.
BranchUpdateInputs == {[NoData EXCEPT !.branchId = b] : b \in EnrollBranchIds}

\* EnrollStudentDto bodies of the students "s1" and "s3".
BranchEnrollInputs == {data \in EnrollInputs : data.studentId \in {"s1", "s3"}}

NextBranch ==
  \/ \E data \in EnrollCreateInputs : Create(data)
  \/ \E id \in 1..MaxGroups, data \in BranchUpdateInputs : Update(id, data)
  \/ \E data \in BranchEnrollInputs : Enroll(data)
  \/ \E data \in StudentGroupInputs : StudentGroupCreate(data)
  \/ \E id \in 1..MaxEnrollments \cup GivenIds,
        data \in UpdateStudentGroupInputs : StudentGroupUpdate(id, data)
  \/ Respond

SpecBranch == Init /\ [][NextBranch]_vars

\* ------------------------------------------------------------ RoomsService
\* status: { in: ['PLANNED', 'ONGOING'] }
ActiveStatuses == {"PLANNED", "ONGOING"}

\* roomRemoveChecks counting the groups of every status.
roomRemoveChecks_AnyStatus(rms, store, id) ==
  IF id \notin DOMAIN rms THEN NotFound
  ELSE IF Cardinality({g \in DOMAIN store : store[g].roomId = id}) > 0
  THEN Conflict
  ELSE Ok

\* remove up to the delete: findOne, then the count of the active groups.
roomRemoveChecks(rms, store, id) ==
  IF id \notin DOMAIN rms THEN NotFound
  ELSE IF Cardinality({g \in DOMAIN store :
                         /\ store[g].roomId = id
                         /\ store[g].status \in ActiveStatuses}) > 0
  THEN Conflict
  ELSE Ok

\* groups_roomId_fkey ... ON DELETE SET NULL
RoomSetNull(store, id) ==
  [g \in DOMAIN store |->
     IF store[g].roomId = id THEN [store[g] EXCEPT !.roomId = NULL]
     ELSE store[g]]

\* DELETE /rooms/:id
RoomRemove(id) ==
  /\ Quiet
  /\ LET code == roomRemoveChecks(rooms, groups, id)
     IN /\ resp' = Answer("roomRemove", id, NoData, code, << >>)
        /\ rooms' = IF code = Ok THEN Without(rooms, id) ELSE rooms
        /\ groups' = IF code = Ok THEN RoomSetNull(groups, id) ELSE groups
  /\ UNCHANGED <<nextId, studentGroups, teachers, courses, branches, calls,
                 staleWrites, students, enrolls, lastCheck, nextEnrollment,
                 users, nextRoomId>>

\* validateBranch: the branch exists and is ACTIVE.
validateBranch(branchId) ==
  branchId \in DOMAIN branches /\ branches[branchId].status = "ACTIVE"

\* prisma.room.findFirst of update: a room other than id with the name of
\* the body, in the branch of the body; a branchId that is undefined is no
\* filter.
roomUpdateFindFirst(rms, id, data) ==
  {r \in DOMAIN rms \ {id} :
     /\ rms[r].name = data.name
     /\ data.branchId = UNDEF \/ rms[r].branchId = data.branchId}

\* update up to the write: findOne, then the branch of the body, then the
\* name of the body.
roomUpdateChecks(rms, id, data) ==
  IF id \notin DOMAIN rms THEN NotFound
  ELSE IF Truthy(data.branchId) /\ ~validateBranch(data.branchId)
  THEN BadRequest
  ELSE IF data.name # NoName /\ roomUpdateFindFirst(rms, id, data) # {}
  THEN Conflict
  ELSE Ok

\* The room row after prisma.room.update with the body.
roomRow(row, data) ==
  [branchId |-> IF data.branchId = UNDEF THEN row.branchId ELSE data.branchId,
   name |-> IF data.name = NoName THEN row.name ELSE data.name]

\* PATCH /rooms/:id with a branchId, a name or both; the write fails with
\* P2003, answered as BadRequest, when the branch of the new row does not
\* exist.
RoomUpdate(id, data) ==
  /\ Quiet
  /\ LET checked == roomUpdateChecks(rooms, id, data)
         code == IF checked = Ok /\ roomRow(rooms[id], data).branchId
                                     \notin DOMAIN branches
                 THEN BadRequest ELSE checked
     IN /\ resp' = Answer("roomUpdate", id, [NoData EXCEPT !.name = data.name,
                                              !.branchId = data.branchId],
                          code, << >>)
        /\ rooms' = IF code = Ok
                    THEN [rooms EXCEPT ![id] = roomRow(rooms[id], data)]
                    ELSE rooms
  /\ UNCHANGED <<groups, nextId, studentGroups, teachers, courses, branches,
                 calls, staleWrites, students, enrolls, lastCheck,
                 nextEnrollment, users, nextRoomId>>

\* @Transform(({ value }) => value?.trim()) of CreateRoomDto.name.
Trim(name) == IF name = "R1 " THEN "R1" ELSE name

\* create up to the write: validateBranch, then prisma.room.findFirst of a
\* room with the name in the branch.
roomCreateChecks(rms, data) ==
  IF ~validateBranch(data.branchId) THEN BadRequest
  ELSE IF \E r \in DOMAIN rms :
            rms[r].branchId = data.branchId /\ rms[r].name = data.name
  THEN Conflict
  ELSE Created

\* POST /rooms
RoomCreate(body) ==
  /\ Quiet
  /\ LET data == [body EXCEPT !.name = Trim(body.name)]
         code == roomCreateChecks(rooms, data)
     IN /\ code = Created => nextRoomId <= MaxRooms
        /\ resp' = Answer("roomCreate", IF code = Created THEN nextRoomId ELSE 0,
                          [NoData EXCEPT !.name = data.name,
                                         !.branchId = data.branchId],
                          code, << >>)
        /\ rooms' = IF code = Created
                    THEN Extend(rooms, nextRoomId,
                                [branchId |-> data.branchId, name |-> data.name])
                    ELSE rooms
        /\ nextRoomId' = IF code = Created THEN nextRoomId + 1 ELSE nextRoomId
  /\ UNCHANGED <<groups, nextId, studentGroups, teachers, courses, branches,
                 calls, staleWrites, students, enrolls, lastCheck,
                 nextEnrollment, users>>

\* The hourly slots '08:00:00' .. '18:00:00'.
TimeSlots == <<8, 9, 10, 11, 12, 13, 14, 15, 16, 17, 18>>

\* availableTimeSlots of an available room (undefined).
NoSlots == <<"UNDEF">>

\* AvailabilityWhere without the status filter.
AvailabilityWhere_AnyStatus(store, roomId, days, startTime, excludeGroupId) ==
  {g \in DOMAIN store :
     /\ store[g].roomId = roomId
     /\ HasSome(store[g].days, days)
     /\ store[g].start_time = ParseTime(startTime)
     /\ Truthy(excludeGroupId) => g # excludeGroupId}

\* prisma.group.findMany of checkAvailability: the ids of the rows found.
AvailabilityWhere(store, roomId, days, startTime, excludeGroupId) ==
  {g \in DOMAIN store :
     /\ store[g].roomId = roomId
     /\ HasSome(store[g].days, days)
     /\ store[g].start_time = ParseTime(startTime)
     /\ store[g].status \in ActiveStatuses
     /\ Truthy(excludeGroupId) => g # excludeGroupId}

\* conflictingGroups.map(...) over the rows in the returned order.
conflictingGroups(store, order) ==
  [i \in 1..Len(order) |->
     [id |-> order[i], name |-> store[order[i]].name,
      days |-> store[order[i]].days,
      time |-> IF store[order[i]].start_time # NULL
               THEN formatTime(store[order[i]].start_time) ELSE UnknownTime]]

\* getAvailableTimeSlots leaving the status of the groups out of the count.
getAvailableTimeSlots_AnyStatus(store, roomId, days) ==
  [i \in 1..Len(days) |->
     [day |-> days[i],
      slots |-> SelectSeq(TimeSlots,
                  LAMBDA slot :
                    Cardinality({g \in DOMAIN store :
                                   /\ store[g].roomId = roomId
                                   /\ days[i] \in Range(store[g].days)
                                   /\ store[g].start_time = ParseTime(slot)})
                    = 0)]]

\* getAvailableTimeSlots: for every day of the request, the slots at which
\* the count of the active groups of the room on that day is 0.
getAvailableTimeSlots(store, roomId, days) ==
  [i \in 1..Len(days) |->
     [day |-> days[i],
      slots |-> SelectSeq(TimeSlots,
                  LAMBDA slot :
                    Cardinality({g \in DOMAIN store :
                                   /\ store[g].roomId = roomId
                                   /\ days[i] \in Range(store[g].days)
                                   /\ store[g].start_time = ParseTime(slot)
                                   /\ store[g].status \in ActiveStatuses})
                    = 0)]]

\* checkAvailability for a room that exists: the bodies the call may return.
checkAvailability(store, roomId, days, startTime, excludeGroupId) ==
  LET found == AvailabilityWhere(store, roomId, days, startTime, excludeGroupId)
  IN {[roomId |-> roomId,
       isAvailable |-> (Cardinality(found) = 0),
       conflictingGroups |-> conflictingGroups(store, o),
       availableTimeSlots |->
         IF Cardinality(found) = 0 THEN NoSlots
         ELSE getAvailableTimeSlots(store, roomId, days)] :
        o \in Orders(found)}

\* POST /rooms/check-availability
CheckAvailability(body) ==
  /\ Quiet
  /\ IF body.roomId \notin DOMAIN rooms
     THEN resp' = Answer("availability", 0, body, NotFound, << >>)
     ELSE \E out \in checkAvailability(groups, body.roomId, body.days,
                                        body.startTime, body.excludeGroupId) :
            resp' = AnswerWith("availability", 0, body, Created, << >>, out)
  /\ UNCHANGED <<groups, nextId, studentGroups, catalog, calls, staleWrites,
                 students, enrolls, lastCheck, nextEnrollment, users,
                 nextRoomId>>

\* Wall-clock hours of the groups of the rooms specification: "09:00:00",
\* "10:00:00".
RoomTimes == {9, 10}

\* Bodies of the groups of the rooms specification.
RoomCreateInputs ==
  [name : Names, courseId : {1}, branchId : BranchIds, teacherId : {UNDEF},
   roomId : RoomIds, status : {"PLANNED", "ONGOING", "COMPLETED"},
   days : {<<"MON", "WED">>, <<"FRI", "SAT">>}, start_time : RoomTimes,
   start_date : {UNDEF}, end_date : {UNDEF}]
  \cup
  [name : Names, courseId : {1}, branchId : BranchIds, teacherId : {UNDEF},
   roomId : {UNDEF}, status : {"PLANNED"}, days : {<<"MON", "WED">>},
   start_time : {9}, start_date : {UNDEF}, end_date : {UNDEF}]

\* Bodies of check-availability: room 2 does not exist.
AvailabilityInputs ==
  [roomId : RoomIds \cup {2},
   days : {<<"MON">>, <<"FRI", "WED">>, << >>},
   startTime : RoomTimes, excludeGroupId : {UNDEF, 1}]

NextRooms ==
  \/ \E data \in RoomCreateInputs : Create(data)
  \/ \E id \in RoomIds \cup {2} : RoomRemove(id)
  \/ \E body \in AvailabilityInputs : CheckAvailability(body)
  \/ Respond

SpecRooms == Init /\ [][NextRooms]_vars

\* ------------------------------------------- dependencies and branch moves
\* CreateGroupDto bodies whose ids may be 0 (falsy), unknown (9), or name a
\* DRAFT course (2), another branch (2) or the INACTIVE branch (3).
DepCreateInputs ==
  [name : Names, courseId : {0, 1, 2, 9}, branchId : {0, 1, 2, 3},
   teacherId : {UNDEF, 0, 1, 9}, roomId : {UNDEF, 0, 1, 9},
   status : Statuses, days : {<<"MON", "WED">>}, start_time : Times,
   start_date : {UNDEF}, end_date : {UNDEF}]

\* UpdateGroupDto bodies that set the branch, the teacher or the room.
DepUpdateInputs ==
  {[NoData EXCEPT !.branchId = b, !.teacherId = t, !.roomId = r] :
     b \in {UNDEF, 2}, t \in {UNDEF, 1}, r \in {UNDEF, 1}}

\* UpdateTeacherDto bodies that set the status or the branch.
DepTeacherInputs ==
  [status : {NoStatus, "ACTIVE", "INACTIVE"}, branchId : {UNDEF, 1, 2}]

\* UpdateRoomDto bodies that set the branch.
DepRoomInputs == [branchId : {UNDEF, 1, 2, 3}, name : {NoName}]

NextDeps ==
  \/ \E data \in DepCreateInputs : Create(data)
  \/ \E id \in 1..MaxGroups, data \in DepUpdateInputs : Update(id, data)
  \/ \E t \in TeacherIds, data \in DepTeacherInputs : TeacherUpdate(t, data)
  \/ \E id \in RoomIds, data \in DepRoomInputs : RoomUpdate(id, data)
  \/ Respond

SpecDeps == Init /\ [][NextDeps]_vars

\* ------------------------------------------------------ start and end dates
\* ISO 8601 strings of the bodies: "1970-01-02", "1970-01-02T23:00:00Z" and
\* "1970-01-03", as hours of UTC.
Dates == {24, 47, 48}

\* CreateGroupDto bodies with dates; @IsOptional lets either date be absent.
DateCreateInputs ==
  [name : Names, courseId : {1}, branchId : BranchIds, teacherId : {UNDEF},
   roomId : {UNDEF}, status : Statuses, days : {<<"MON", "WED">>},
   start_time : {UNDEF}, start_date : Dates \cup {UNDEF},
   end_date : Dates \cup {UNDEF}]

\* UpdateGroupDto bodies that set or clear the dates.
DateUpdateInputs ==
  {[NoData EXCEPT !.start_date = sd, !.end_date = ed] :
     sd \in Dates \cup {UNDEF, NULL}, ed \in Dates \cup {UNDEF, NULL}}

NextDates ==
  \/ \E data \in DateCreateInputs : Create(data)
  \/ \E id \in 1..MaxGroups, data \in DateUpdateInputs : Update(id, data)
  \/ Respond

SpecDates == Init /\ [][NextDates]_vars

\* ------------------------------------------------- updates of one resource
\* PATCH /courses/:id with a status: prisma.course.update writes the body;
\* an unknown course is answered NotFound and the call changes nothing.
CourseUpdate(c, status) ==
  /\ Quiet
  /\ c \in DOMAIN courses
  /\ courses[c].status # status
  /\ courses' = [courses EXCEPT ![c].status = status]
  /\ UNCHANGED <<groups, nextId, studentGroups, teachers, branches, rooms,
                 resp, calls, staleWrites, students, enrolls, lastCheck,
                 nextEnrollment, users, nextRoomId>>

\* CourseStatus
CourseStatuses == {"ACTIVE", "DRAFT", "ARCHIVED"}

\* Bodies of the groups whose teacher or room is then changed alone.
PartialCreateInputs ==
  {data \in CreateInputs : data.courseId = 1 /\ data.days = <<"MON", "WED">>}

\* UpdateGroupDto bodies with roomId alone or teacherId alone.
PartialUpdateInputs ==
  {[NoData EXCEPT !.roomId = r] : r \in RoomIds \cup {NULL}}
  \cup {[NoData EXCEPT !.teacherId = t] : t \in TeacherIds \cup {NULL}}

NextPartial ==
  \/ \E data \in PartialCreateInputs : Create(data)
  \/ \E id \in 1..MaxGroups, data \in PartialUpdateInputs : Update(id, data)
  \/ \E c \in {1}, status \in CourseStatuses : CourseUpdate(c, status)
  \/ \E t \in TeacherIds, data \in CatTeacherInputs : TeacherUpdate(t, data)
  \/ Respond

SpecPartial == Init /\ [][NextPartial]_vars

\* ------------------------------------------------- calls that end in error
\* CreateGroupDto bodies that are rejected by the validation (the DRAFT
\* course 2), by the conflict check (teacher 1) or by the foreign key (the
\* course id 0, which the validation skips), and bodies that are accepted.
FrameCreateInputs ==
  [name : Names, courseId : {0, 1, 2}, branchId : BranchIds,
   teacherId : {UNDEF, 1}, roomId : {UNDEF}, status : Statuses,
   days : {<<"MON", "WED">>}, start_time : Times,
   start_date : {UNDEF}, end_date : {UNDEF}]

\* UpdateGroupDto bodies of the same kinds.
FrameUpdateInputs ==
  {[NoData EXCEPT !.courseId = c, !.teacherId = t, !.days = d] :
     c \in {UNDEF, 0, 2}, t \in {UNDEF, 1},
     d \in {NoDays, <<"WED", "FRI">>, <<"TUE", "THU">>}}

\* EnrollStudentDto bodies of student "s1".
FrameEnrollInputs ==
  {data \in EnrollInputs : data.studentId = "s1" /\ data.branchId = 1}

NextFrame ==
  \/ \E data \in FrameCreateInputs : Create(data)
  \/ \E id \in 1..MaxGroups, data \in FrameUpdateInputs : Update(id, data)
  \/ \E id \in 1..MaxGroups : Remove(id)
  \/ \E data \in FrameEnrollInputs : Enroll(data)
  \/ Respond

SpecFrame == Init /\ [][NextFrame]_vars

\* ------------------------------------------------------ names of the rooms
\* CreateRoomDto bodies: names as typed, one with a trailing blank.
RoomNameCreateInputs == [name : {"R1", "R1 ", "R2"}, branchId : {1, 2, 3}]

\* UpdateRoomDto bodies that set the name, the branch or both.
RoomNameUpdateInputs ==
  [name : {NoName, "R1", "R2"}, branchId : {UNDEF, 1, 2}]

NextRoomNames ==
  \/ \E body \in RoomNameCreateInputs : RoomCreate(body)
  \/ \E id \in 1..MaxRooms, data \in RoomNameUpdateInputs : RoomUpdate(id, data)
  \/ Respond

SpecRoomNames == Init /\ [][NextRoomNames]_vars

\* ------------------------------------------------------------ UsersService
\* UserRole
UserRoles == {"ADMIN", "MANAGER", "TEACHER", "STUDENT"}

\* prisma.user.count({ where: { role: UserRole.ADMIN } })
adminCount(us) == Cardinality({u \in DOMAIN us : us[u].role = "ADMIN"})

\* remove up to the delete: findUnique, then the count of the ADMIN users
\* when the user is an ADMIN.
userRemoveChecks(us, id) ==
  IF id \notin DOMAIN us THEN NotFound
  ELSE IF us[id].role = "ADMIN" /\ adminCount(us) <= 1 THEN Forbidden
  ELSE Ok

\* DELETE /users/:id
UserRemove(id) ==
  /\ Quiet
  /\ LET code == userRemoveChecks(users, id)
     IN /\ resp' = AnswerWith("userRemove", id, NoData, code, << >>, NoBody)
        /\ users' = IF code = Ok THEN Without(users, id) ELSE users
  /\ UNCHANGED <<groups, nextId, studentGroups, catalog, calls, staleWrites,
                 students, enrolls, lastCheck, nextEnrollment, nextRoomId>>

\* updateRole up to the write: findUnique, then the count of the ADMIN
\* users when an ADMIN gets another role.
updateRoleChecks(us, id, role) ==
  IF id \notin DOMAIN us THEN NotFound
  ELSE IF us[id].role = "ADMIN" /\ role # "ADMIN" /\ adminCount(us) <= 1
  THEN Forbidden
  ELSE Ok

\* PATCH /users/:id/role
UserUpdateRole(id, role) ==
  /\ Quiet
  /\ LET code == updateRoleChecks(users, id, role)
     IN /\ resp' = AnswerWith("userUpdateRole", id, NoData, code, << >>,
                              [role |-> role])
        /\ users' = IF code = Ok THEN [users EXCEPT ![id].role = role]
                    ELSE users
  /\ UNCHANGED <<groups, nextId, studentGroups, catalog, calls, staleWrites,
                 students, enrolls, lastCheck, nextEnrollment, nextRoomId>>

\* PATCH /users/:id with a body that holds a role or none: findUnique, then
\* prisma.user.update, which writes the role of the body when it is truthy.
UserUpdate(id, data) ==
  /\ Quiet
  /\ LET code == IF id \in DOMAIN users THEN Ok ELSE NotFound
     IN /\ resp' = AnswerWith("userUpdate", id, NoData, code, << >>,
                              [role |-> data.role])
        /\ users' = IF code = Ok /\ data.role # NoStatus
                    THEN [users EXCEPT ![id].role = data.role]
                    ELSE users
  /\ UNCHANGED <<groups, nextId, studentGroups, catalog, calls, staleWrites,
                 students, enrolls, lastCheck, nextEnrollment, nextRoomId>>

\* UpdateUserDto bodies: with a role, or without.
UserUpdateInputs == [role : UserRoles \cup {NoStatus}]

NextUsers ==
  \/ \E id \in UserIds : UserRemove(id)
  \/ \E id \in UserIds, role \in UserRoles : UserUpdateRole(id, role)
  \/ \E id \in UserIds, data \in UserUpdateInputs : UserUpdate(id, data)
  \/ Respond

SpecUsers == Init /\ [][NextUsers]_vars

\* ------------------------------------- check-availability, then the create
\* Bodies of check-availability with the days and hours of the groups of
\* the rooms specification.
AgreeAvailabilityInputs ==
  [roomId : RoomIds, days : {<<"MON", "WED">>, <<"FRI", "SAT">>},
   startTime : RoomTimes, excludeGroupId : {UNDEF}]

NextAgree ==
  \/ \E data \in RoomCreateInputs : Create(data)
  \/ \E body \in AgreeAvailabilityInputs : CheckAvailability(body)
  \/ Deliver

SpecAgree == Init /\ [][NextAgree]_vars

\* ----------------------------------------- check-conflicts, then the create
\* CreateGroupDto bodies sent to check-conflicts and to create alike: with or
\* without teacher and room, of the ACTIVE or of the DRAFT course, on days
\* that meet the days of one or of two persisted groups.
SameInputs ==
  [name : Names, courseId : CourseIds, branchId : BranchIds,
   teacherId : TeacherIds \cup {UNDEF}, roomId : RoomIds \cup {UNDEF},
   status : Statuses,
   days : {<<"MON", "WED">>, <<"TUE", "THU">>, <<"THU", "WED", "MON">>},
   start_time : Times, start_date : {UNDEF}, end_date : {UNDEF}]

NextSame ==
  \/ \E data \in SameInputs : Create(data)
  \/ \E data \in SameInputs : CheckConflicts(data)
  \/ Deliver

SpecSame == Init /\ [][NextSame]_vars

\* ------------------------------------------------- vocabulary of the claims
\* Two day lists have a weekday in common.
Common(d1, d2) == \E i \in 1..Len(d1), j \in 1..Len(d2) : d1[i] = d2[j]

\* The wall-clock hour of a stored start_time.
WallClock(stored) ==
  IF stored = NULL THEN NULL ELSE (stored + TzOffset) % HoursPerDay

\* The state a call asks for: the fields of the body laid over the stored row
\* of an update, start_time as a wall-clock hour, an absent field as null.
Resulting(r) ==
  LET had == r.op = "update" /\ r.id \in DOMAIN r.pre
      over(inBody, old) == IF inBody # UNDEF THEN inBody
                           ELSE IF had THEN old ELSE NULL
  IN [courseId |-> over(r.data.courseId, IF had THEN r.pre[r.id].courseId ELSE NULL),
      branchId |-> over(r.data.branchId, IF had THEN r.pre[r.id].branchId ELSE NULL),
      teacherId |-> over(r.data.teacherId, IF had THEN r.pre[r.id].teacherId ELSE NULL),
      roomId |-> over(r.data.roomId, IF had THEN r.pre[r.id].roomId ELSE NULL),
      days |-> IF r.data.days # NoDays THEN r.data.days
               ELSE IF had THEN r.pre[r.id].days ELSE << >>,
      start_time |-> over(r.data.start_time,
                          IF had THEN WallClock(r.pre[r.id].start_time) ELSE NULL)]

\* The body of a call carries a schedule field.
CarriesSchedule(r) ==
  \/ r.data.teacherId # UNDEF \/ r.data.roomId # UNDEF
  \/ r.data.days # NoDays \/ r.data.start_time \notin {UNDEF, NULL}

\* Every dependency of a candidate is valid: the branch is ACTIVE, the course
\* is ACTIVE and of the branch, the teacher, if any, is ACTIVE and of the
\* branch, the room, if any, is of the branch.
DepsValid(c) ==
  /\ c.branchId \in DOMAIN branches /\ branches[c.branchId].status = "ACTIVE"
  /\ c.courseId \in DOMAIN courses /\ courses[c.courseId].status = "ACTIVE"
  /\ courses[c.courseId].branchId = c.branchId
  /\ c.teacherId # NULL =>
       /\ c.teacherId \in DOMAIN teachers
       /\ teachers[c.teacherId].status = "ACTIVE"
       /\ teachers[c.teacherId].branchId = c.branchId
  /\ c.roomId # NULL =>
       c.roomId \in DOMAIN rooms /\ rooms[c.roomId].branchId = c.branchId

\* A create, or an update of a stored group, has just been answered.
Wrote(r) ==
  \/ r.op = "create"
  \/ r.op = "update" /\ r.id \in DOMAIN r.pre

\* Candidate c and stored row B meet at the same hour on a common weekday.
SameSlot(c, B) ==
  /\ Common(c.days, B.days)
  /\ c.start_time # NULL /\ c.start_time = WallClock(B.start_time)

\* The answer r carries a conflict record of the type for group b.
Reports(r, type, b) ==
  \E i \in 1..Len(r.conflicts) :
     /\ r.conflicts[i].conflictType = type
     /\ r.conflicts[i].conflictingGroupId = b

\* ------------------------------------------------------------------ claims
\* C1 as stated: a create, or an update of another group, whose candidate has
\* the teacher of a persisted group B, a weekday in common with B and B's
\* start_time is rejected with 409 and a TEACHER_CONFLICT naming B, and is not
\* persisted.
C1_AsStated ==
  Wrote(resp) =>
    \A b \in DOMAIN resp.pre \ {resp.id} :
       ( /\ resp.pre[b].teacherId # NULL
         /\ Resulting(resp).teacherId = resp.pre[b].teacherId
         /\ SameSlot(Resulting(resp), resp.pre[b]) )
       => /\ resp.code = Conflict
          /\ Reports(resp, "TEACHER_CONFLICT", b)
          /\ groups = resp.pre

\* C1 amended: the same, for a call whose body carries a schedule field and
\* whose candidate has valid dependencies.
C1_TeacherConflictRejected ==
  (Wrote(resp) /\ CarriesSchedule(resp) /\ DepsValid(Resulting(resp))) =>
    \A b \in DOMAIN resp.pre \ {resp.id} :
       ( /\ resp.pre[b].teacherId # NULL
         /\ Resulting(resp).teacherId = resp.pre[b].teacherId
         /\ SameSlot(Resulting(resp), resp.pre[b]) )
       => /\ resp.code = Conflict
          /\ Reports(resp, "TEACHER_CONFLICT", b)
          /\ groups = resp.pre

\* C1 witness: an update of one group onto the teacher and slot of another,
\* with other days of its own, has been rejected with the record.
C1_Witness ==
  /\ resp.op = "update" /\ resp.code = Conflict
  /\ \E b \in DOMAIN resp.pre \ {resp.id} :
       /\ Reports(resp, "TEACHER_CONFLICT", b)
       /\ Resulting(resp).days # resp.pre[b].days
  /\ groups = resp.pre

\* C2 as stated: the same as C1 for the room and ROOM_CONFLICT.
C2_AsStated ==
  Wrote(resp) =>
    \A b \in DOMAIN resp.pre \ {resp.id} :
       ( /\ resp.pre[b].roomId # NULL
         /\ Resulting(resp).roomId = resp.pre[b].roomId
         /\ SameSlot(Resulting(resp), resp.pre[b]) )
       => /\ resp.code = Conflict
          /\ Reports(resp, "ROOM_CONFLICT", b)
          /\ groups = resp.pre

\* C2 amended: the same, for a call whose body carries a schedule field and
\* whose candidate has valid dependencies.
C2_RoomConflictRejected ==
  (Wrote(resp) /\ CarriesSchedule(resp) /\ DepsValid(Resulting(resp))) =>
    \A b \in DOMAIN resp.pre \ {resp.id} :
       ( /\ resp.pre[b].roomId # NULL
         /\ Resulting(resp).roomId = resp.pre[b].roomId
         /\ SameSlot(Resulting(resp), resp.pre[b]) )
       => /\ resp.code = Conflict
          /\ Reports(resp, "ROOM_CONFLICT", b)
          /\ groups = resp.pre

\* C2 witness: a create into the room and slot of a group of another teacher,
\* on other days, has been rejected with the record.
C2_Witness ==
  /\ resp.op = "create" /\ resp.code = Conflict
  /\ \E b \in DOMAIN resp.pre :
       /\ Reports(resp, "ROOM_CONFLICT", b)
       /\ ~Reports(resp, "TEACHER_CONFLICT", b)
       /\ resp.data.days # resp.pre[b].days
  /\ groups = resp.pre

\* Two rows book the same teacher or the same room at the same hour of a
\* common weekday.
Overlap(A, B) ==
  /\ \/ A.teacherId # NULL /\ A.teacherId = B.teacherId
     \/ A.roomId # NULL /\ A.roomId = B.roomId
  /\ Common(A.days, B.days)
  /\ A.start_time # NULL /\ A.start_time = B.start_time

DoubleBooked(store) ==
  \E a, b \in DOMAIN store : a # b /\ Overlap(store[a], store[b])

\* C3: with the group calls executed one at a time from an empty store, no
\* two persisted groups share a teacher or a room together with a weekday and
\* a start_time.
C3_NoDoubleBooking == ~DoubleBooked(groups)

\* C3 witness: an update has moved a group onto the teacher and hour of
\* another group, on days that group leaves free.
C3_Witness ==
  /\ resp.op = "update" /\ resp.code = Ok /\ resp.id \in DOMAIN groups
  /\ groups # resp.pre
  /\ \E b \in DOMAIN groups \ {resp.id} :
       /\ groups[b].teacherId # NULL
       /\ groups[b].teacherId = groups[resp.id].teacherId
       /\ groups[b].start_time # NULL
       /\ groups[b].start_time = groups[resp.id].start_time

\* C4: the conflict check and the write are separate steps, so two
\* interleaved calls may both pass the check and both be persisted; a double
\* booking is persisted only by a write made on a read that another write
\* had followed.
C4_DoubleBookingOnlyByRace == DoubleBooked(groups) => staleWrites

\* C4 witness: two calls for the same teacher, weekday and hour have both
\* read before either wrote, and both groups are persisted.
C4_Witness ==
  /\ staleWrites
  /\ \A k \in DOMAIN calls : calls[k].op = "idle"
  /\ \E a, b \in DOMAIN groups :
       /\ a # b
       /\ groups[a].teacherId # NULL /\ groups[a].teacherId = groups[b].teacherId
       /\ Common(groups[a].days, groups[b].days)
       /\ groups[a].start_time # NULL
       /\ groups[a].start_time = groups[b].start_time

\* An answer of a call that may run the conflict check.
Checked(r) == r.op \in {"create", "update", "check"}

\* C5: no conflict record names a group that has no weekday in common with
\* the candidate, and a create whose days are disjoint from the days of every
\* group of its teacher and of its room is not rejected with a conflict.
C5_DisjointDaysNeverConflict ==
  Checked(resp) =>
    /\ \A i \in 1..Len(resp.conflicts) :
         /\ resp.conflicts[i].conflictingGroupId \in DOMAIN resp.pre
         /\ Common(Resulting(resp).days,
                   resp.pre[resp.conflicts[i].conflictingGroupId].days)
    /\ ( /\ resp.op = "create"
         /\ \A b \in DOMAIN resp.pre :
              ( \/ resp.pre[b].teacherId = Resulting(resp).teacherId
                \/ resp.pre[b].roomId = Resulting(resp).roomId )
              => ~Common(resp.data.days, resp.pre[b].days) )
       => resp.code # Conflict

\* C5 witness: a create for the teacher and hour of a persisted group, on
\* other days, has been accepted.
C5_Witness ==
  /\ resp.op = "create" /\ resp.code = Created
  /\ \E b \in DOMAIN resp.pre :
       /\ resp.pre[b].teacherId # NULL
       /\ resp.pre[b].teacherId = resp.data.teacherId
       /\ resp.data.start_time = WallClock(resp.pre[b].start_time)
       /\ ~Common(resp.data.days, resp.pre[b].days)

\* The body of an update repeats the stored teacher, room, days and hour.
RepeatsOwn(r) ==
  /\ r.op = "update" /\ r.id \in DOMAIN r.pre
  /\ r.data.teacherId = r.pre[r.id].teacherId
  /\ r.data.roomId = r.pre[r.id].roomId
  /\ r.data.days = r.pre[r.id].days
  /\ r.data.start_time = WallClock(r.pre[r.id].start_time)

\* No other stored group meets the candidate of an update on its teacher or
\* its room.
NoOtherConflict(r) ==
  \A b \in DOMAIN r.pre \ {r.id} :
     ~( /\ \/ r.pre[b].teacherId # NULL
              /\ r.pre[b].teacherId = Resulting(r).teacherId
           \/ r.pre[b].roomId # NULL /\ r.pre[b].roomId = Resulting(r).roomId
        /\ SameSlot(Resulting(r), r.pre[b]) )

\* No conflict record of the answer names the group the call is about.
NoSelfRecord(r) ==
  \A i \in 1..Len(r.conflicts) : r.conflicts[i].conflictingGroupId # r.id

\* C6 as stated: an update that repeats the group's own teacher, room, days
\* and start_time is not rejected with a record naming the group itself, and
\* succeeds when no other group conflicts.
C6_AsStated ==
  RepeatsOwn(resp) =>
    /\ NoSelfRecord(resp)
    /\ NoOtherConflict(resp) => resp.code = Ok

\* C6 amended: no update is rejected with a record naming the group itself,
\* and an update that repeats the group's own schedule succeeds when no other
\* group conflicts and the dependencies of the group are valid.
C6_NoSelfConflict ==
  /\ resp.op = "update" => NoSelfRecord(resp)
  /\ ( /\ RepeatsOwn(resp) /\ NoOtherConflict(resp)
       /\ DepsValid(Resulting(resp)) )
     => resp.code = Ok

\* C6 witness: an update repeating the group's own schedule has succeeded
\* beside another group of the same teacher.
C6_Witness ==
  /\ RepeatsOwn(resp) /\ resp.code = Ok
  /\ \E b \in DOMAIN resp.pre \ {resp.id} :
       resp.pre[b].teacherId = resp.pre[resp.id].teacherId

\* C7: a candidate without teacher gets no TEACHER_CONFLICT, a candidate
\* without room no ROOM_CONFLICT, and a group without teacher (room) is not
\* reported as a TEACHER_CONFLICT (ROOM_CONFLICT).
C7_UnsetResourceNeverConflicts ==
  Checked(resp) =>
    \A i \in 1..Len(resp.conflicts) :
       LET rec == resp.conflicts[i] IN
       /\ rec.conflictingGroupId \in DOMAIN resp.pre
       /\ rec.conflictType = "TEACHER_CONFLICT" =>
            /\ Resulting(resp).teacherId # NULL
            /\ resp.pre[rec.conflictingGroupId].teacherId # NULL
       /\ rec.conflictType = "ROOM_CONFLICT" =>
            /\ Resulting(resp).roomId # NULL
            /\ resp.pre[rec.conflictingGroupId].roomId # NULL

\* C7 witness: a candidate without teacher has been checked against a group
\* without teacher that holds its room, weekday and hour.
C7_Witness ==
  /\ Checked(resp) /\ Resulting(resp).teacherId = NULL
  /\ \E b \in DOMAIN resp.pre :
       /\ resp.pre[b].teacherId = NULL
       /\ Reports(resp, "ROOM_CONFLICT", b)

\* The groups the candidate of an answer meets on its teacher.
TeacherHits(r) ==
  {b \in DOMAIN r.pre :
     /\ r.op = "update" => b # r.id
     /\ r.pre[b].teacherId # NULL
     /\ r.pre[b].teacherId = Resulting(r).teacherId
     /\ SameSlot(Resulting(r), r.pre[b])}

\* The groups the candidate of an answer meets on its room.
RoomHits(r) ==
  {b \in DOMAIN r.pre :
     /\ r.op = "update" => b # r.id
     /\ r.pre[b].roomId # NULL
     /\ r.pre[b].roomId = Resulting(r).roomId
     /\ SameSlot(Resulting(r), r.pre[b])}

\* C8: a conflict list that reaches the caller holds one TEACHER_CONFLICT for
\* every group met on the teacher, then one ROOM_CONFLICT for every group met
\* on the room, and nothing else.
C8_ConflictListExact ==
  (Checked(resp) /\ resp.conflicts # << >>) =>
    LET L == resp.conflicts
        n == Cardinality(TeacherHits(resp))
    IN /\ Len(L) = n + Cardinality(RoomHits(resp))
       /\ {L[i].conflictingGroupId : i \in 1..n} = TeacherHits(resp)
       /\ \A i \in 1..n : L[i].conflictType = "TEACHER_CONFLICT"
       /\ {L[i].conflictingGroupId : i \in (n + 1)..Len(L)} = RoomHits(resp)
       /\ \A i \in (n + 1)..Len(L) : L[i].conflictType = "ROOM_CONFLICT"
       /\ resp.op # "check" => resp.code = Conflict

\* C8 witness: a list with two teacher records followed by a room record.
C8_Witness ==
  /\ Checked(resp) /\ Len(resp.conflicts) >= 3
  /\ resp.conflicts[1].conflictType = "TEACHER_CONFLICT"
  /\ resp.conflicts[2].conflictType = "TEACHER_CONFLICT"
  /\ resp.conflicts[1].conflictingGroupId # resp.conflicts[2].conflictingGroupId
  /\ resp.conflicts[3].conflictType = "ROOM_CONFLICT"

\* C9: conflictDays of a record is the candidate's days that the conflicting
\* group also has, in the candidate's order and not empty; conflictTime is
\* the start_time of the conflicting group and of the candidate.
C9_ConflictRecordContents ==
  Checked(resp) =>
    \A i \in 1..Len(resp.conflicts) :
       LET rec == resp.conflicts[i]
           c == Resulting(resp)
       IN /\ rec.conflictingGroupId \in DOMAIN resp.pre
          /\ rec.conflictDays =
               SelectSeq(c.days,
                         LAMBDA d : \E j \in 1..Len(resp.pre[rec.conflictingGroupId].days) :
                                      resp.pre[rec.conflictingGroupId].days[j] = d)
          /\ rec.conflictDays # << >>
          /\ rec.conflictTime = WallClock(resp.pre[rec.conflictingGroupId].start_time)
          /\ rec.conflictTime = c.start_time

\* C9 witness: a candidate on [WED, FRI] against a group on [MON, WED] has
\* been answered with conflictDays [WED].
C9_Witness ==
  /\ Checked(resp) /\ Resulting(resp).days = <<"WED", "FRI">>
  /\ \E i \in 1..Len(resp.conflicts) :
       /\ resp.pre[resp.conflicts[i].conflictingGroupId].days = <<"MON", "WED">>
       /\ resp.conflicts[i].conflictDays = <<"WED">>

\* C10: a candidate with no days, or without start_time, gets an empty
\* conflict list and is not rejected with a conflict.
C10_NothingToCompare ==
  ( /\ Checked(resp)
    /\ Resulting(resp).days = << >> \/ Resulting(resp).start_time = NULL )
  => resp.conflicts = << >> /\ resp.code # Conflict

\* C10 witness: a candidate without start_time has been checked against a
\* group of its teacher that shares a weekday with it.
C10_Witness ==
  /\ resp.op = "check" /\ resp.data.start_time = UNDEF
  /\ resp.data.days \notin {<< >>, NoDays}
  /\ \E b \in DOMAIN resp.pre :
       /\ resp.pre[b].teacherId = resp.data.teacherId
       /\ resp.pre[b].start_time # NULL
       /\ Common(resp.data.days, resp.pre[b].days)

\* Two dry runs with the same body, the second made on the store of the
\* first with no write in between.
Repeated(r, last) ==
  r.op = "check" /\ last.op = "check" /\ last.data = r.data

\* The records of a list, without their order.
Records(list) == {list[i] : i \in 1..Len(list)}

\* C11 as stated: the dry run changes no persisted group, answers 200 with
\* hasConflicts = true exactly when its list is not empty, and a repeated
\* call returns the same hasConflicts and the same conflicts list.
C11_AsStated ==
  /\ resp.op = "check" =>
       /\ groups = resp.pre
       /\ resp.code = Ok
       /\ resp.body.hasConflicts <=> (resp.body.conflicts # << >>)
  /\ Repeated(resp, lastCheck) =>
       /\ resp.body.hasConflicts = lastCheck.body.hasConflicts
       /\ resp.body.conflicts = lastCheck.body.conflicts

\* C11 amended: the same, where a repeated call returns the same hasConflicts
\* and the same conflict records, as many of them, in an order that the
\* queries leave open.
C11_DryRun ==
  /\ resp.op = "check" =>
       /\ groups = resp.pre
       /\ resp.code = Ok
       /\ resp.body.hasConflicts <=> (resp.body.conflicts # << >>)
  /\ Repeated(resp, lastCheck) =>
       /\ resp.pre = lastCheck.pre
       /\ resp.body.hasConflicts = lastCheck.body.hasConflicts
       /\ Records(resp.body.conflicts) = Records(lastCheck.body.conflicts)
       /\ Len(resp.body.conflicts) = Len(lastCheck.body.conflicts)

\* C11 witness: a dry run has been repeated on a store where it meets two
\* groups, and has reported conflicts both times.
C11_Witness ==
  /\ Repeated(resp, lastCheck)
  /\ resp.body.hasConflicts /\ lastCheck.body.hasConflicts
  /\ Len(resp.body.conflicts) = 2
  /\ groups = resp.pre

\* The student_group rows of a group.
EnrolledIn(table, g) == {row \in table : row.groupId = g}

\* C12: remove of an unknown group fails with NotFound; remove of a group
\* that a student_group row references fails with Conflict and leaves the
\* group and the enrollments as they were; remove of a group that no row
\* references deletes the group and nothing else.
C12_RemoveGuard ==
  resp.op = "remove" =>
    /\ resp.id \notin DOMAIN resp.pre =>
         resp.code = NotFound /\ groups = resp.pre
    /\ (resp.id \in DOMAIN resp.pre /\ EnrolledIn(resp.preEnrolled, resp.id) # {}) =>
         /\ resp.code = Conflict
         /\ groups = resp.pre
         /\ studentGroups = resp.preEnrolled
    /\ (resp.id \in DOMAIN resp.pre /\ EnrolledIn(resp.preEnrolled, resp.id) = {}) =>
         /\ resp.code = Ok
         /\ DOMAIN groups = DOMAIN resp.pre \ {resp.id}
         /\ \A g \in DOMAIN groups : groups[g] = resp.pre[g]
         /\ studentGroups = resp.preEnrolled

\* C12 witness: the remove of a group with an enrolled student has been
\* refused while another group has none.
C12_Witness ==
  /\ resp.op = "remove" /\ resp.code = Conflict
  /\ EnrolledIn(studentGroups, resp.id) # {}
  /\ \E g \in DOMAIN groups : EnrolledIn(studentGroups, g) = {}

\* No two student_group rows have the same (groupId, studentId).
PairsUnique(table) ==
  \A a, b \in table :
     (a.groupId = b.groupId /\ a.studentId = b.studentId) => a = b

\* The pair of an enroll call had a row when the call was made.
AlreadyEnrolled(r) ==
  \E row \in r.preEnrolled :
     row.groupId = r.data.groupId /\ row.studentId = r.data.studentId

\* C14 as stated: there is at most one student_group row per pair, and an
\* enroll call for a pair that has a row fails with Conflict and adds no row.
C14_AsStated ==
  /\ PairsUnique(studentGroups)
  /\ (resp.op = "enroll" /\ AlreadyEnrolled(resp)) =>
       resp.code = Conflict /\ studentGroups = resp.preEnrolled

\* C14 amended: there is at most one student_group row per pair, and an
\* enroll call for a pair that has a row adds no row; it fails with Conflict
\* when the branchId of the body is the branch of the student and of the
\* group, and with a 400 error otherwise.
C14_EnrollmentUnique ==
  /\ PairsUnique(studentGroups)
  /\ (resp.op = "enroll" /\ AlreadyEnrolled(resp)) =>
       /\ studentGroups = resp.preEnrolled
       /\ resp.code =
            IF /\ students[resp.data.studentId].branchId = resp.data.branchId
               /\ resp.pre[resp.data.groupId].branchId = resp.data.branchId
            THEN Conflict ELSE BadRequest

\* C14 witness: a second enroll call for an enrolled pair has been refused
\* with Conflict while the group has two students.
C14_Witness ==
  /\ resp.op = "enroll" /\ AlreadyEnrolled(resp) /\ resp.code = Conflict
  /\ Cardinality({row \in studentGroups : row.groupId = resp.data.groupId}) = 2

\* The enroll calls in flight for the pair of call k.
SamePairCalls(k) ==
  {j \in DOMAIN enrolls :
     /\ enrolls[j].pc # "idle"
     /\ enrolls[j].data.groupId = enrolls[k].data.groupId
     /\ enrolls[j].data.studentId = enrolls[k].data.studentId}

\* C15: enroll calls for one pair that have all passed the existence check
\* before any of them inserted end with one row for the pair; once all of
\* them are answered one has succeeded and every other one has got Conflict;
\* no enroll call is answered with an unmapped error.
C15_RacingEnrollsConflict ==
  /\ PairsUnique(studentGroups)
  /\ \A k \in DOMAIN enrolls :
       enrolls[k].pc = "done" =>
         /\ enrolls[k].code \in {Created, Conflict}
         /\ Cardinality({row \in studentGroups :
                           /\ row.groupId = enrolls[k].data.groupId
                           /\ row.studentId = enrolls[k].data.studentId}) = 1
         /\ ( /\ enrolls[k].raced
              /\ \A j \in SamePairCalls(k) : enrolls[j].pc = "done" )
            => /\ Cardinality({j \in SamePairCalls(k) :
                                 enrolls[j].code = Created}) = 1
               /\ \A j \in SamePairCalls(k) :
                    enrolls[j].code \in {Created, Conflict}

\* C15 witness: two calls for one pair had both passed the check before
\* either inserted; one has been answered 201 and the other 409.
C15_Witness ==
  \E j, k \in DOMAIN enrolls :
     /\ j # k /\ j \in SamePairCalls(k)
     /\ enrolls[j].pc = "done" /\ enrolls[k].pc = "done"
     /\ enrolls[j].raced /\ enrolls[k].raced
     /\ enrolls[j].code = Created /\ enrolls[k].code = Conflict

\* C16: an enroll call inserts a row only if the student and the group exist
\* and both have the branchId of the body; a missing student or group is
\* answered NotFound, a branch mismatch with a 400 error, and neither inserts
\* a row.
C16_EnrollValidates ==
  resp.op = "enroll" =>
    LET d == resp.data
        known == d.studentId \in DOMAIN students /\ d.groupId \in DOMAIN resp.pre
    IN /\ studentGroups # resp.preEnrolled =>
            /\ known
            /\ students[d.studentId].branchId = d.branchId
            /\ resp.pre[d.groupId].branchId = d.branchId
            /\ resp.code = Created
            /\ resp.preEnrolled \subseteq studentGroups
            /\ \A row \in studentGroups \ resp.preEnrolled :
                 /\ row.groupId = d.groupId /\ row.studentId = d.studentId
                 /\ row.branchId = d.branchId
       /\ ~known => resp.code = NotFound /\ studentGroups = resp.preEnrolled
       /\ ( /\ known
            /\ \/ students[d.studentId].branchId # d.branchId
               \/ resp.pre[d.groupId].branchId # d.branchId )
          => resp.code = BadRequest /\ studentGroups = resp.preEnrolled

\* C16 witness: the enroll of a student of another branch into a group of
\* the branch of the body has been answered with a 400 error.
C16_Witness ==
  /\ resp.op = "enroll" /\ resp.code = BadRequest
  /\ resp.data.groupId \in DOMAIN resp.pre
  /\ resp.pre[resp.data.groupId].branchId = resp.data.branchId
  /\ students[resp.data.studentId].branchId # resp.data.branchId
  /\ studentGroups = resp.preEnrolled /\ studentGroups # {}

\* The groups of a room that are PLANNED or ONGOING.
ActiveIn(store, room) ==
  {g \in DOMAIN store :
     store[g].roomId = room /\ store[g].status \in {"PLANNED", "ONGOING"}}

\* C13: remove of an existing room that has a PLANNED or ONGOING group fails
\* with Conflict and leaves the room and the groups as they were; remove of
\* an existing room whose groups are all COMPLETED, or that has no group,
\* deletes the room.
C13_RoomRemoveGuard ==
  (resp.op = "roomRemove" /\ resp.id \in DOMAIN resp.preRooms) =>
    /\ ActiveIn(resp.pre, resp.id) # {} =>
         /\ resp.code = Conflict
         /\ rooms = resp.preRooms
         /\ groups = resp.pre
    /\ ActiveIn(resp.pre, resp.id) = {} =>
         /\ resp.code = Ok
         /\ DOMAIN rooms = DOMAIN resp.preRooms \ {resp.id}

\* C13 witness: a room whose only group is COMPLETED has been deleted.
C13_Witness ==
  /\ resp.op = "roomRemove" /\ resp.code = Ok
  /\ resp.id \notin DOMAIN rooms
  /\ \E g \in DOMAIN resp.pre :
       resp.pre[g].roomId = resp.id /\ resp.pre[g].status = "COMPLETED"

\* The groups that make a room unavailable for a request: PLANNED or ONGOING
\* groups of the room, other than the excluded one, that meet on a requested
\* day at the requested hour.
Occupying(r) ==
  {g \in ActiveIn(r.pre, r.data.roomId) :
     /\ g # r.data.excludeGroupId
     /\ Common(r.data.days, r.pre[g].days)
     /\ WallClock(r.pre[g].start_time) = r.data.startTime}

\* C17: check-availability of an unknown room fails with NotFound; of a
\* known room it returns isAvailable = false exactly when some group
\* occupies the room for the request, and conflictingGroups lists those
\* groups, each once, and nothing else.
C17_AvailabilityExact ==
  resp.op = "availability" =>
    IF resp.data.roomId \notin DOMAIN resp.preRooms
    THEN resp.code = NotFound
    ELSE /\ resp.code # NotFound
         /\ resp.body.isAvailable <=> (Occupying(resp) = {})
         /\ {resp.body.conflictingGroups[i].id :
               i \in 1..Len(resp.body.conflictingGroups)} = Occupying(resp)
         /\ Len(resp.body.conflictingGroups) = Cardinality(Occupying(resp))
         /\ resp.body.isAvailable => resp.body.conflictingGroups = << >>
         /\ groups = resp.pre

\* C17 witness: a request that excludes one of two groups of the room that
\* meet at its hour on its days has been answered with the other group alone.
C17_Witness ==
  /\ resp.op = "availability" /\ resp.data.roomId \in DOMAIN resp.preRooms
  /\ ~resp.body.isAvailable
  /\ Len(resp.body.conflictingGroups) = 1
  /\ resp.data.excludeGroupId \in DOMAIN resp.pre
  /\ resp.pre[resp.data.excludeGroupId].roomId = resp.data.roomId
  /\ WallClock(resp.pre[resp.data.excludeGroupId].start_time) = resp.data.startTime
  /\ Common(resp.data.days, resp.pre[resp.data.excludeGroupId].days)

\* An hour at which a PLANNED or ONGOING group of the room meets on the day.
Taken(store, room, day, hour) ==
  \E g \in ActiveIn(store, room) :
     /\ \E i \in 1..Len(store[g].days) : store[g].days[i] = day
     /\ WallClock(store[g].start_time) = hour

\* C18: an answer with isAvailable = true carries no availableTimeSlots; an
\* answer with isAvailable = false carries one entry for every requested
\* day, in the order of the request, whose slots are the hours 8 to 18 at
\* which no PLANNED or ONGOING group of the room meets on that day.
C18_AvailableSlots ==
  (resp.op = "availability" /\ resp.data.roomId \in DOMAIN resp.preRooms) =>
    LET slots == resp.body.availableTimeSlots
        days == resp.data.days
    IN IF resp.body.isAvailable THEN slots = <<"UNDEF">>
       ELSE /\ Len(slots) = Len(days)
            /\ \A i \in 1..Len(days) :
                 /\ slots[i].day = days[i]
                 /\ \A h \in 0..(HoursPerDay - 1) :
                      (\E j \in 1..Len(slots[i].slots) : slots[i].slots[j] = h)
                      <=> ( /\ h >= 8 /\ h <= 18
                            /\ ~Taken(resp.pre, resp.data.roomId, days[i], h) )
                 /\ \A j, k \in 1..Len(slots[i].slots) :
                      j < k => slots[i].slots[j] < slots[i].slots[k]

\* C18 witness: the room is taken at the requested hour, and a slot at which
\* only a COMPLETED group meets on a requested day is offered for that day.
C18_Witness ==
  /\ resp.op = "availability" /\ resp.data.roomId \in DOMAIN resp.preRooms
  /\ ~resp.body.isAvailable
  /\ \E i \in 1..Len(resp.data.days), g \in DOMAIN resp.pre :
       /\ resp.pre[g].roomId = resp.data.roomId
       /\ resp.pre[g].status = "COMPLETED"
       /\ \E d \in 1..Len(resp.pre[g].days) :
            resp.pre[g].days[d] = resp.data.days[i]
       /\ \E j \in 1..Len(resp.body.availableTimeSlots[i].slots) :
            resp.body.availableTimeSlots[i].slots[j]
              = WallClock(resp.pre[g].start_time)
       /\ \E j \in 1..Len(resp.body.availableTimeSlots[i].slots) :
            resp.body.availableTimeSlots[i].slots[j] = 18

\* C19 as stated: a create persists a group only if, on the catalog of the
\* call, the branch is ACTIVE, the course is ACTIVE and of the branch, the
\* teacher, if given, is ACTIVE and of the branch and the room, if given, is
\* of the branch; a create for which one of these fails is answered with a
\* 400 error and persists nothing.
C19_AsStated ==
  resp.op = "create" =>
    /\ groups # resp.pre =>
         /\ DepsValid(Resulting(resp))
         /\ resp.code = Created
         /\ resp.id \in DOMAIN groups /\ resp.id \notin DOMAIN resp.pre
         /\ groups[resp.id].branchId = resp.data.branchId
    /\ ~DepsValid(Resulting(resp)) =>
         resp.code = BadRequest /\ groups = resp.pre

\* C20 as stated: the room and the teacher of every persisted group, if set,
\* have the branchId of the group.
C20_AsStated ==
  \A g \in DOMAIN groups :
     /\ groups[g].roomId # NULL =>
          /\ groups[g].roomId \in DOMAIN rooms
          /\ rooms[groups[g].roomId].branchId = groups[g].branchId
     /\ groups[g].teacherId # NULL =>
          /\ groups[g].teacherId \in DOMAIN teachers
          /\ teachers[groups[g].teacherId].branchId = groups[g].branchId

\* The dates of a row are in order: an end_date comes with a start_date
\* that is not later.
DatesInOrder(row) ==
  row.end_date # NULL =>
    row.start_date # NULL /\ row.end_date >= row.start_date

\* The row a create or an update of a stored group asks for.
Asked(r) ==
  IF r.op = "create" THEN createRow(r.data)
  ELSE updateRow(r.pre[r.id], r.data)

\* C21 as stated: every persisted group with an end_date has a start_date
\* that is not later, and a create or update that asks for a group with an
\* end_date but no start_date, or with an end_date before its start_date, is
\* rejected and persists nothing.
C21_AsStated ==
  /\ \A g \in DOMAIN groups : DatesInOrder(groups[g])
  /\ (Wrote(resp) /\ ~DatesInOrder(Asked(resp))) =>
       resp.code \notin {Created, Ok} /\ groups = resp.pre

\* An update of a stored group whose body holds roomId and nothing else.
OnlyRoom(r) ==
  /\ r.op = "update" /\ r.id \in DOMAIN r.pre
  /\ r.data.roomId # UNDEF
  /\ r.data = [NoData EXCEPT !.roomId = r.data.roomId]

\* An update of a stored group whose body holds teacherId and nothing else.
OnlyTeacher(r) ==
  /\ r.op = "update" /\ r.id \in DOMAIN r.pre
  /\ r.data.teacherId # UNDEF
  /\ r.data = [NoData EXCEPT !.teacherId = r.data.teacherId]

\* The room of a body is valid for the group: it exists and is of the
\* branch of the group.
RoomValid(r) ==
  r.data.roomId # NULL =>
    /\ r.data.roomId \in DOMAIN rooms
    /\ rooms[r.data.roomId].branchId = r.pre[r.id].branchId

\* The teacher of a body is valid for the group: it exists, is ACTIVE and
\* is of the branch of the group.
TeacherValid(r) ==
  r.data.teacherId # NULL =>
    /\ r.data.teacherId \in DOMAIN teachers
    /\ teachers[r.data.teacherId].status = "ACTIVE"
    /\ teachers[r.data.teacherId].branchId = r.pre[r.id].branchId

\* C22 as stated: an update that changes roomId alone, to a room that is
\* valid for the group, or teacherId alone, to a teacher that is valid for
\* the group, is not rejected with a 400 error, whatever the state of the
\* unchanged course, teacher and branch of the group.
C22_AsStated ==
  /\ (OnlyRoom(resp) /\ RoomValid(resp)) => resp.code # BadRequest
  /\ (OnlyTeacher(resp) /\ TeacherValid(resp)) => resp.code # BadRequest

\* The body of an update of a stored group contains teacherId, roomId, days
\* or start_time.
ContainsSchedule(r) ==
  /\ r.op = "update" /\ r.id \in DOMAIN r.pre
  /\ \/ r.data.teacherId # UNDEF \/ r.data.roomId # UNDEF
     \/ r.data.days # NoDays \/ r.data.start_time # UNDEF

\* The body of an update of a stored group holds days and nothing else.
OnlyDays(r) ==
  /\ r.op = "update" /\ r.id \in DOMAIN r.pre
  /\ r.data.days # NoDays
  /\ r.data = [NoData EXCEPT !.days = r.data.days]

Failed(r) ==
  /\ r.op \in {"create", "update", "remove"}
  /\ r.code \notin {Created, Ok}

\* The rows of the groups table that a call has added, changed or deleted.
Written(r) ==
  {g \in DOMAIN groups \cup DOMAIN r.pre :
     \/ g \notin DOMAIN groups \/ g \notin DOMAIN r.pre
     \/ groups[g] # r.pre[g]}

\* C24: a group create, update or remove that is answered with an error
\* leaves the groups and the enrollments as they were before the call; a
\* call that succeeds writes at most one row of the groups table, the row it
\* is about, and no enrollment.
C24_ErrorsWriteNothing ==
  /\ Failed(resp) =>
       groups = resp.pre /\ studentGroups = resp.preEnrolled
  /\ (resp.op \in {"create", "update", "remove"} /\ ~Failed(resp)) =>
       /\ Written(resp) \subseteq {resp.id}
       /\ studentGroups = resp.preEnrolled
       /\ resp.op = "create" => resp.id \notin DOMAIN resp.pre
       /\ resp.op = "remove" => resp.id \notin DOMAIN groups

\* C24 witness: an update of an existing group that has an enrolled student
\* has passed the checks and failed in the write, on a foreign key.
C24_Witness ==
  /\ resp.op = "update" /\ resp.code = BadRequest
  /\ resp.id \in DOMAIN resp.pre
  /\ resp.data.courseId = 0
  /\ EnrolledIn(studentGroups, resp.id) # {}
  /\ groups = resp.pre

\* No two rooms of one branch have the same name.
RoomNamesUnique(rms) ==
  \A a, b \in DOMAIN rms :
     (rms[a].branchId = rms[b].branchId /\ rms[a].name = rms[b].name) => a = b

\* The room a create or an update of a stored room asks for.
AskedRoom(r) ==
  IF r.op = "roomCreate"
  THEN [branchId |-> r.data.branchId, name |-> r.data.name]
  ELSE [branchId |-> IF r.data.branchId = UNDEF
                     THEN r.preRooms[r.id].branchId ELSE r.data.branchId,
        name |-> IF r.data.name = NoName
                 THEN r.preRooms[r.id].name ELSE r.data.name]

\* The other rooms that have the name and the branch of the asked room.
Namesakes(r) ==
  {x \in DOMAIN r.preRooms \ {r.id} : r.preRooms[x] = AskedRoom(r)}

\* A room create, or an update of a stored room, has been answered.
WroteRoom(r) ==
  \/ r.op = "roomCreate"
  \/ r.op = "roomUpdate" /\ r.id \in DOMAIN r.preRooms

\* C25 as stated: no two rooms of one branch have the same name; a room
\* create or update that asks for the name of another room of the resulting
\* branch is rejected with Conflict and writes nothing; and a room update is
\* rejected with Conflict only when another room of the resulting branch has
\* the name.
C25_AsStated ==
  /\ RoomNamesUnique(rooms)
  /\ (WroteRoom(resp) /\ Namesakes(resp) # {}) =>
       resp.code \in {Conflict, BadRequest} /\ rooms = resp.preRooms
  /\ (resp.op = "roomUpdate" /\ resp.id \in DOMAIN resp.preRooms
      /\ resp.code = Conflict) => Namesakes(resp) # {}

\* A user call has been answered.
UserCall(r) == r.op \in {"userRemove", "userUpdateRole", "userUpdate"}

\* The call is about the only ADMIN and would leave the users without one:
\* it removes the user or gives the user another role.
TakesLastAdmin(r) ==
  /\ UserCall(r) /\ r.id \in DOMAIN r.preUsers
  /\ r.preUsers[r.id].role = "ADMIN" /\ adminCount(r.preUsers) = 1
  /\ \/ r.op = "userRemove"
     \/ r.op # "userRemove" /\ r.body.role \notin {"ADMIN", NoStatus}

\* C26 as stated: there is always a user with the role ADMIN, and a remove,
\* updateRole or update that would take the role from the only ADMIN fails
\* with Forbidden and changes nothing.
C26_AsStated ==
  /\ adminCount(users) >= 1
  /\ TakesLastAdmin(resp) =>
       resp.code = Forbidden /\ users = resp.preUsers

\* The ids of the groups that the records of a type name.
Named(list, type) ==
  {list[i].conflictingGroupId :
     i \in {j \in 1..Len(list) : list[j].conflictType = type}}

\* A create without teacher and with valid dependencies follows a
\* check-availability of its room, days and start_time, with no write in
\* between.
RoomAsked(r, last) ==
  /\ r.op = "create" /\ last.op = "availability" /\ last.code # NotFound
  /\ r.pre = last.pre /\ r.preRooms = last.preRooms
  /\ last.data.excludeGroupId = UNDEF
  /\ r.data.roomId = last.data.roomId
  /\ r.data.days = last.data.days
  /\ r.data.start_time = last.data.startTime
  /\ r.data.teacherId = UNDEF
  /\ DepsValid(Resulting(r))

\* C27 as stated: after check-availability has answered isAvailable = true
\* the create of a group in that room on those days at that start_time is not
\* rejected with a ROOM_CONFLICT; after it has answered isAvailable = false
\* the create is rejected with ROOM_CONFLICT records that name the groups of
\* conflictingGroups.
C27_AsStated ==
  RoomAsked(resp, lastCheck) =>
    IF lastCheck.body.isAvailable
    THEN resp.code # Conflict /\ Named(resp.conflicts, "ROOM_CONFLICT") = {}
    ELSE /\ resp.code = Conflict
         /\ Named(resp.conflicts, "ROOM_CONFLICT")
              = {lastCheck.body.conflictingGroups[i].id :
                   i \in 1..Len(lastCheck.body.conflictingGroups)}

\* A create follows a check-conflicts with the same body, with no write in
\* between, and the dependencies of the body are valid.
SameBody(r, last) ==
  /\ r.op = "create" /\ last.op = "check"
  /\ r.data = last.data
  /\ r.pre = last.pre /\ r.preRooms = last.preRooms
  /\ DepsValid(Resulting(r))

\* C28 as stated: the create is rejected with a schedule conflict exactly
\* when check-conflicts has answered hasConflicts = true, and then carries
\* the same conflict list; it passes the conflict check exactly when
\* check-conflicts has answered hasConflicts = false.
C28_AsStated ==
  SameBody(resp, lastCheck) =>
    /\ lastCheck.body.hasConflicts <=> (resp.code = Conflict)
    /\ ~lastCheck.body.hasConflicts <=> (resp.code = Created)
    /\ resp.conflicts = lastCheck.body.conflicts

\* C28 amended: the same, where the two lists hold the same records, as many
\* of them, the TEACHER_CONFLICT records before the ROOM_CONFLICT records, in
\* an order within each type that the queries leave open.
C28_CheckAgreesWithCreate ==
  SameBody(resp, lastCheck) =>
    /\ lastCheck.body.hasConflicts <=> (resp.code = Conflict)
    /\ ~lastCheck.body.hasConflicts <=> (resp.code = Created)
    /\ Records(resp.conflicts) = Records(lastCheck.body.conflicts)
    /\ Len(resp.conflicts) = Len(lastCheck.body.conflicts)
    /\ \A i \in 1..Len(resp.conflicts) :
         resp.conflicts[i].conflictType
           = lastCheck.body.conflicts[i].conflictType
    /\ resp.code = Conflict => groups = resp.pre

\* C28 witness: check-conflicts has reported a teacher and a room conflict
\* for a body, and the create with that body has been rejected with them.
C28_Witness ==
  /\ SameBody(resp, lastCheck)
  /\ lastCheck.body.hasConflicts /\ resp.code = Conflict
  /\ Named(resp.conflicts, "TEACHER_CONFLICT") # {}
  /\ Named(resp.conflicts, "ROOM_CONFLICT") # {}
  /\ groups = resp.pre

\* C29 as stated: under any interleaving of remove with enroll, no remove
\* deletes a group that a student_group row references at the delete, and
\* no row references a group whose remove has reported success.
C29_AsStated ==
  \A k \in DOMAIN calls :
     calls[k].op = "removed" =>
       /\ ~calls[k].stale
       /\ EnrolledIn(studentGroups, calls[k].id) = {}

\* The branch of the row is the branch of its student and of its group.
BranchAgrees(row) ==
  /\ row.groupId \in DOMAIN groups => row.branchId = groups[row.groupId].branchId
  /\ row.studentId \in DOMAIN students =>
       row.branchId = students[row.studentId].branchId

\* C30 as stated: in every reachable state the branchId of each
\* student_group row equals the branchId of its student and of its group,
\* after any sequence of enroll calls, of POST and PUT /student-group calls
\* and of group updates that change the branch.
C30_AsStated == \A row \in studentGroups : BranchAgrees(row)

====
